---- MODULE Spec2Model ----
(***************************************************************************)
(* LifeThreads diary: the App component (entry collection, persistence to  *)
(* the localStorage slot 'lifeThreads_entries', timeline enrichment) and   *)
(* the EntryModal component.  The App source is present in two revisions   *)
(* (src/unnamed/part_000 lines 8-200 and 213-461); the variable rev says   *)
(* which one a run executes.  One action is one event handler (or one      *)
(* promise continuation) together with the React commit it causes: the     *)
(* render with the new state and the effects of that render.               *)
(***************************************************************************)
EXTENDS Integers, Sequences, FiniteSets, Bags, TLC

\* ------------------------------------------------------------------ bounds
MaxIds == 2          \* ids crypto.randomUUID() hands out in one run of the model
MaxFailures == 1     \* storage writes the browser rejects in one run of the model
MaxInFlight == 3     \* reflect/illustrate pairs that may be outstanding at once
MaxViewLen == 3      \* entries in a collection the read view is derived from
MaxBatchLen == 3     \* files in one upload batch
MaxUploads == 2      \* upload batches that may be outstanding at once
MaxImages == 3       \* images the form holds together with those still being processed
MaxPhotos == 1       \* the same, in the runs that follow the resizing of a photo

\* ------------------------------------------------------- JavaScript values
Undefined == "undefined"
Null == "null"
Truthy(v) == v # Undefined /\ v # Null /\ v # ""
Get(o, k) == IF k \in DOMAIN o THEN o[k] ELSE Undefined
\* Variant: the supplied object replaces the entry instead of being merged onto it.
Spread_Replace(e, data) == data

Spread(e, data) ==
    [k \in (DOMAIN e) \cup (DOMAIN data) |-> IF k \in DOMAIN data THEN data[k] ELSE e[k]]
\* String.prototype.trim: white space is taken off both ends.
WhiteSpace == {" ", "\t", "\n"}
RECURSIVE TrimStart(_)
TrimStart(s) ==
    IF Len(s) > 0 /\ SubSeq(s, 1, 1) \in WhiteSpace THEN TrimStart(SubSeq(s, 2, Len(s))) ELSE s
RECURSIVE TrimEnd(_)
TrimEnd(s) ==
    IF Len(s) > 0 /\ SubSeq(s, Len(s), Len(s)) \in WhiteSpace
    THEN TrimEnd(SubSeq(s, 1, Len(s) - 1)) ELSE s
Trim(s) == TrimEnd(TrimStart(s))

OptionalKeys == {"aiReflection", "aiImage"}
StorageWarning == "Storage full"

\* ------------------------------------------------------------ input sets
Contents == {"a"}
Dates == {"2024-01-01T00:00:00.000Z"}
Now == "2024-02-01T00:00:00.000Z"
ImageLists == {<<>>}
Reflections == {"r"}
AiImages == {"img"}
IdOf(n) == ToString(n)
Ids == {IdOf(n) : n \in 1..MaxIds}

VARIABLES
    rev,             \* revision of App that runs: 1 or 2
    modalRev,        \* revision of EntryModal: 1 is unnamed/part_001, 2 is components/EntryModal.tsx
    pc,              \* "init" before mount, "loaded" while setEntries(parsed) is queued, "ready"
    slot,            \* localStorage item 'lifeThreads_entries'
    queued,          \* the array handed to setEntries by the load effect, not yet rendered
    entries,         \* App state entries
    storageError,    \* App state storageError
    isReflectingId,  \* App state isReflectingId
    yearSummary,     \* App state yearSummary
    isGeneratingSummary, \* App state isGeneratingSummary
    requests,        \* bag of the reflect/illustrate pairs awaiting their Promise.all
    crashed,         \* an exception escaped a handler or effect
    uuidCount,       \* ids drawn from crypto.randomUUID() so far
    failures,        \* storage writes rejected so far
    lastWrite,       \* what the save effect of the last step did: "none", "ok", "failed"
    lastOp,          \* the operation of the last step
    lastId,          \* the entry id the last step was about, or null
    saveArg,         \* the Partial<DiaryEntry> a caller hands to handleSaveEntry
    isModalOpen,     \* App state isModalOpen
    editingEntry,    \* App state editingEntry, the modal's initialData
    modal,           \* EntryModal state
    searchQuery,     \* App state searchQuery
    env,             \* what the gateway runs in: its revision, process.env, the service
    gatewayModule,   \* the geminiService module: "unloaded", "loaded", "failed"
    reply,           \* how the asynchronous call that settled in the last step settled
    uploads,         \* bag of the processFiles batches awaiting their Promise.all
    alerts           \* the messages window.alert showed during the last step

modalVars == <<isModalOpen, editingEntry, modal>>
summaryVars == <<yearSummary, isGeneratingSummary>>
gatewayVars == <<env, gatewayModule>>
vars == <<rev, modalRev, yearSummary, isGeneratingSummary, pc, slot, queued, entries, storageError, isReflectingId, requests,
          crashed, uuidCount, failures, lastWrite, lastOp, lastId, saveArg,
          isModalOpen, editingEntry, modal, searchQuery,
          env, gatewayModule, reply, uploads, alerts>>

\* reply when the last step settled no gateway call.
NoReply == [op |-> "none"]

\* ------------------------------------------------------- the storage slot
\* The item is text.  kind says what JSON.parse makes of it: "absent" (getItem
\* gives null), "empty" (the empty string), "corrupt" (JSON.parse throws),
\* "nonarray" (valid JSON, Array.isArray false), "array".
SlotOf(kind, items) == [kind |-> kind, items |-> items]
AbsentSlot == SlotOf("absent", <<>>)

\* Variant: the serializer also leaves out the aiImage payload.
StringifyEntry_NoAiImage(e) ==
    [k \in {j \in DOMAIN e : j # "aiImage" /\ ~(j \in OptionalKeys /\ e[j] = Undefined)} |-> e[k]]

\* JSON.stringify of one entry: a property whose value is undefined is left out.
StringifyEntry(e) ==
    [k \in {j \in DOMAIN e : ~(j \in OptionalKeys /\ e[j] = Undefined)} |-> e[k]]
JSONstringify(ents) ==
    SlotOf("array", [i \in 1..Len(ents) |-> StringifyEntry(ents[i])])
\* JSON.parse: throws on text that is not JSON, else the value the text denotes.
JSONparse(text) ==
    [threw |-> text.kind = "corrupt",
     isArray |-> text.kind = "array",
     value |-> text.items]

EntryIds(ents) == {ents[i].id : i \in 1..Len(ents)}
SlotIds(text) == {text.items[i].id : i \in 1..Len(text.items)}

\* ----------------------------------------------------------- load effect
\* What the parsed array is in memory: the objects JSON.parse builds.
LoadResult(set, value, text, uncaught) ==
    [set |-> set, value |-> value, slot |-> text, uncaught |-> uncaught]

\* First revision: only JSON.parse is inside the try; the catch removes the item.
LoadEffect1(text) ==
    IF text.kind \in {"absent", "empty"}
    THEN LoadResult(FALSE, <<>>, text, FALSE)
    ELSE LET parsed == JSONparse(text) IN
         IF parsed.threw
         THEN LoadResult(FALSE, <<>>, AbsentSlot, FALSE)
         ELSE IF parsed.isArray
              THEN LoadResult(TRUE, parsed.value, text, FALSE)
              ELSE LoadResult(FALSE, <<>>, text, FALSE)

\* Variant: JSON.parse outside any try, so its SyntaxError escapes the effect.
LoadEffect2_NoTry(text) ==
    IF text.kind \in {"absent", "empty"}
    THEN LoadResult(FALSE, <<>>, text, FALSE)
    ELSE LET parsed == JSONparse(text) IN
         IF parsed.threw
         THEN LoadResult(FALSE, <<>>, text, TRUE)
         ELSE IF parsed.isArray
              THEN LoadResult(TRUE, parsed.value, text, FALSE)
              ELSE LoadResult(FALSE, <<>>, text, FALSE)

\* Second revision: getItem and JSON.parse are inside the try; the catch only logs.
LoadEffect2(text) ==
    IF text.kind \in {"absent", "empty"}
    THEN LoadResult(FALSE, <<>>, text, FALSE)
    ELSE LET parsed == JSONparse(text) IN
         IF parsed.threw
         THEN LoadResult(FALSE, <<>>, text, FALSE)
         ELSE IF parsed.isArray
              THEN LoadResult(TRUE, parsed.value, text, FALSE)
              ELSE LoadResult(FALSE, <<>>, text, FALSE)

LoadEffect(r, text) == IF r = 1 THEN LoadEffect1(text) ELSE LoadEffect2(text)

\* ----------------------------------------------------------- save effect
\* The browser accepts a write (TRUE) or throws QuotaExceededError (FALSE).
WriteOutcomes == IF failures < MaxFailures THEN BOOLEAN ELSE {TRUE}

\* First revision returns before writing when entries is empty.
SaveSkips(r, ents) == r = 1 /\ Len(ents) = 0

\* Variant: the catch block logs the error and raises no warning.
SaveEffect_NoWarning(text, ents, ok) ==
    IF SaveSkips(rev, ents)
    THEN /\ slot' = text
         /\ lastWrite' = "none"
         /\ UNCHANGED <<storageError, failures>>
    ELSE IF ok
         THEN /\ slot' = JSONstringify(ents)
              /\ storageError' = Null
              /\ lastWrite' = "ok"
              /\ UNCHANGED failures
         ELSE /\ slot' = text
              /\ lastWrite' = "failed"
              /\ failures' = failures + 1
              /\ UNCHANGED storageError

\* text is the item before the effect runs, ents the entries of the render.
SaveEffect(text, ents, ok) ==
    IF SaveSkips(rev, ents)
    THEN /\ slot' = text
         /\ lastWrite' = "none"
         /\ UNCHANGED <<storageError, failures>>
    ELSE IF ok
         THEN /\ slot' = JSONstringify(ents)
              /\ storageError' = Null
              /\ lastWrite' = "ok"
              /\ UNCHANGED failures
         ELSE /\ slot' = text
              /\ storageError' = StorageWarning
              /\ lastWrite' = "failed"
              /\ failures' = failures + 1

\* ---------------------------------------------------------------- read view
\* String.prototype.toLowerCase, letter by letter.
UpperCase ==
    <<"A", "B", "C", "D", "E", "F", "G", "H", "I", "J", "K", "L", "M",
      "N", "O", "P", "Q", "R", "S", "T", "U", "V", "W", "X", "Y", "Z">>
LowerCase ==
    <<"a", "b", "c", "d", "e", "f", "g", "h", "i", "j", "k", "l", "m",
      "n", "o", "p", "q", "r", "s", "t", "u", "v", "w", "x", "y", "z">>
LowerChar(c) ==
    IF \E i \in 1..Len(UpperCase) : UpperCase[i] = c
    THEN LowerCase[CHOOSE i \in 1..Len(UpperCase) : UpperCase[i] = c]
    ELSE c
RECURSIVE toLowerCase(_)
toLowerCase(s) ==
    IF Len(s) = 0 THEN "" ELSE LowerChar(SubSeq(s, 1, 1)) \o toLowerCase(SubSeq(s, 2, Len(s)))

\* String.prototype.includes.
includes(s, q) == \E i \in 0..(Len(s) - Len(q)) : SubSeq(s, i + 1, i + Len(q)) = q

\* new Date(iso).getTime() of an ISO string YYYY-MM-DDTHH:MM:SS.mmmZ, kept as the
\* pair <<whole minutes since the epoch, milliseconds into the minute>>.
Digits == <<"0", "1", "2", "3", "4", "5", "6", "7", "8", "9">>
DigitOf(c) == (CHOOSE i \in 1..Len(Digits) : Digits[i] = c) - 1
RECURSIVE Number(_)
Number(s) ==
    IF Len(s) = 0 THEN 0
    ELSE Number(SubSeq(s, 1, Len(s) - 1)) * 10 + DigitOf(SubSeq(s, Len(s), Len(s)))
DaysFromCivil(y, m, d) ==
    LET yy == IF m <= 2 THEN y - 1 ELSE y
        era == yy \div 400
        yoe == yy - era * 400
        mp == (m + 9) % 12
        doy == (153 * mp + 2) \div 5 + d - 1
        doe == yoe * 365 + yoe \div 4 - yoe \div 100 + doy
    IN  era * 146097 + doe - 719468
getTime(iso) ==
    LET days == DaysFromCivil(Number(SubSeq(iso, 1, 4)), Number(SubSeq(iso, 6, 7)),
                              Number(SubSeq(iso, 9, 10)))
    IN  <<(days * 24 + Number(SubSeq(iso, 12, 13))) * 60 + Number(SubSeq(iso, 15, 16)),
          Number(SubSeq(iso, 18, 19)) * 1000 + Number(SubSeq(iso, 21, 23))>>

\* The sign of the comparator new Date(b.date).getTime() - new Date(a.date).getTime().
CompareSign(a, b) ==
    LET ta == getTime(a.date)
        tb == getTime(b.date)
    IN  IF tb = ta THEN 0
        ELSE IF tb[1] > ta[1] \/ (tb[1] = ta[1] /\ tb[2] > ta[2]) THEN 1 ELSE -1

\* Variant: the comparator subtracts the other way round.
Insert_Ascending(sorted, e) ==
    LET before == {k \in 1..Len(sorted) : CompareSign(e, sorted[k]) > 0}
        at == IF before = {} THEN Len(sorted) + 1
              ELSE CHOOSE k \in before : \A j \in before : k <= j
    IN  SubSeq(sorted, 1, at - 1) \o <<e>> \o SubSeq(sorted, at, Len(sorted))

\* Array.prototype.sort is stable: e goes in front of the first element the
\* comparator puts after it.
Insert(sorted, e) ==
    LET before == {k \in 1..Len(sorted) : CompareSign(sorted[k], e) > 0}
        at == IF before = {} THEN Len(sorted) + 1
              ELSE CHOOSE k \in before : \A j \in before : k <= j
    IN  SubSeq(sorted, 1, at - 1) \o <<e>> \o SubSeq(sorted, at, Len(sorted))
RECURSIVE ArraySort(_)
ArraySort(arr) ==
    IF arr = <<>> THEN <<>>
    ELSE Insert(ArraySort(SubSeq(arr, 1, Len(arr) - 1)), arr[Len(arr)])

\* Variant: the query is compared as typed, without toLowerCase.
FilterPredicate_QueryAsTyped(e, q) ==
    includes(toLowerCase(e.content), q) \/ includes(e.date, q)

FilterPredicate(e, q) ==
    includes(toLowerCase(e.content), toLowerCase(q)) \/ includes(e.date, q)

ArrayFilter(ents, q) == SelectSeq(ents, LAMBDA e : FilterPredicate(e, q))

\* sort works in place on the array it is called on.  That array is the one
\* filter returned, which is always a new array, never entries.
SortsEntriesInPlace(ents, q) == FALSE

\* The useMemo on [entries, searchQuery], and what its evaluation leaves in entries.
FilteredEntries(ents, q) == ArraySort(ArrayFilter(ents, q))
EntriesAfterRender(ents, q) ==
    IF SortsEntriesInPlace(ents, q) THEN ArraySort(ents) ELSE ents
filteredEntries == FilteredEntries(entries, searchQuery)

\* setEntries(ents): the render with the new array, then its save effect.
Commit(ents, ok) ==
    /\ entries' = EntriesAfterRender(ents, searchQuery)
    /\ SaveEffect(slot, EntriesAfterRender(ents, searchQuery), ok)

\* A step whose render leaves entries alone: the save effect does not run.
NoCommit ==
    /\ lastWrite' = "none"
    /\ UNCHANGED <<entries, slot, storageError, failures>>

\* ---------------------------------------------------------------- startup
Mount ==
    /\ pc = "init"
    /\ \E ok \in WriteOutcomes :
         LET l == LoadEffect(rev, slot) IN
         /\ queued' = l.value
         /\ pc' = IF l.set THEN "loaded" ELSE "ready"
         /\ crashed' = (crashed \/ l.uncaught)
         /\ SaveEffect(l.slot, entries, ok)
    /\ lastOp' = "mount"
    /\ lastId' = Null
    /\ alerts' = <<>>
    /\ reply' = NoReply
    /\ UNCHANGED <<modalRev, summaryVars, gatewayVars, searchQuery, uploads, rev, entries, isReflectingId, requests,
                   uuidCount, saveArg, modalVars>>

LoadCommit ==
    /\ pc = "loaded"
    /\ \E ok \in WriteOutcomes : Commit(queued, ok)
    /\ pc' = "ready"
    /\ queued' = <<>>
    /\ lastOp' = "load"
    /\ lastId' = Null
    /\ alerts' = <<>>
    /\ reply' = NoReply
    /\ UNCHANGED <<modalRev, summaryVars, gatewayVars, searchQuery, uploads, rev, isReflectingId, requests, crashed, uuidCount, saveArg, modalVars>>

\* The page is closed or refreshed: component state starts over, the item stays.
Reload ==
    /\ pc # "init"
    /\ pc' = "init"
    /\ entries' = <<>>
    /\ queued' = <<>>
    /\ storageError' = Null
    /\ isReflectingId' = Null
    /\ requests' = EmptyBag
    /\ crashed' = FALSE
    /\ lastWrite' = "none"
    /\ lastOp' = "reload"
    /\ lastId' = Null
    /\ searchQuery' = ""
    /\ uploads' = EmptyBag
    /\ alerts' = <<>>
    /\ reply' = NoReply
    /\ yearSummary' = Null
    /\ isGeneratingSummary' = FALSE
    /\ UNCHANGED <<modalRev, gatewayVars, rev, slot, uuidCount, failures, saveArg, modalVars>>

\* ------------------------------------------------------ create and update
\* Variant: every new entry gets the same id instead of a fresh randomUUID.
NewEntry_SameId(data, uuid, now) ==
    [id |-> IdOf(1),
     content |-> IF Truthy(Get(data, "content")) THEN data.content ELSE "",
     date |-> IF Truthy(Get(data, "date")) THEN data.date ELSE now,
     images |-> IF "images" \in DOMAIN data THEN data.images ELSE <<>>,
     aiReflection |-> Get(data, "aiReflection"),
     aiImage |-> Get(data, "aiImage")]

NewEntry(data, uuid, now) ==
    [id |-> uuid,
     content |-> IF Truthy(Get(data, "content")) THEN data.content ELSE "",
     date |-> IF Truthy(Get(data, "date")) THEN data.date ELSE now,
     images |-> IF "images" \in DOMAIN data THEN data.images ELSE <<>>,
     aiReflection |-> Get(data, "aiReflection"),
     aiImage |-> Get(data, "aiImage")]

UpdateEntries(prev, data) ==
    [i \in 1..Len(prev) |-> IF prev[i].id = data.id THEN Spread(prev[i], data) ELSE prev[i]]

\* Variant: the new entry takes the place of the newest one instead of joining it.
CreateEntries_Overwrite(prev, data, uuid, now) ==
    <<NewEntry(data, uuid, now)>> \o (IF prev = <<>> THEN <<>> ELSE Tail(prev))

CreateEntries(prev, data, uuid, now) == <<NewEntry(data, uuid, now)>> \o prev

handleSaveEntry(prev, data, uuid, now) ==
    IF Truthy(Get(data, "id"))
    THEN UpdateEntries(prev, data)
    ELSE CreateEntries(prev, data, uuid, now)

\* What EntryModal.handleSave passes to onSave: all six properties, id undefined
\* for a new entry; aiImage is only ever set together with aiReflection.
AiPairs == {<<Undefined, Undefined>>}
             \cup {<<r, Undefined>> : r \in Reflections}
             \cup {<<r, i>> : r \in Reflections, i \in AiImages}
ModalData(ids) ==
    {[id |-> i, content |-> c, date |-> d, images |-> im,
      aiReflection |-> ai[1], aiImage |-> ai[2]] :
        i \in ids \cup {Undefined}, c \in Contents, d \in Dates,
        im \in ImageLists, ai \in AiPairs}

SaveEntry ==
    /\ pc = "ready"
    /\ \E data \in ModalData(EntryIds(entries)) :
         /\ Truthy(data.id) \/ uuidCount < MaxIds
         /\ \E ok \in WriteOutcomes :
              Commit(handleSaveEntry(entries, data, IdOf(uuidCount + 1), Now), ok)
         /\ uuidCount' = IF Truthy(data.id) THEN uuidCount ELSE uuidCount + 1
         /\ lastOp' = IF Truthy(data.id) THEN "edit" ELSE "create"
         /\ lastId' = IF Truthy(data.id) THEN data.id ELSE IdOf(uuidCount + 1)
    /\ alerts' = <<>>
    /\ reply' = NoReply
    /\ UNCHANGED <<modalRev, summaryVars, gatewayVars, searchQuery, uploads, rev, pc, queued, isReflectingId, requests, crashed, saveArg, modalVars>>

\* ------------------------------------------------------------------ delete
\* Variant: the filter drops the newest entry, whatever id was asked for.
RemoveEntry_Newest(prev, id) == Tail(prev)

RemoveEntry(prev, id) == SelectSeq(prev, LAMBDA e : e.id # id)

handleDeleteEntry(prev, id, confirmed) ==
    IF confirmed THEN RemoveEntry(prev, id) ELSE prev

DeleteEntry ==
    /\ pc = "ready"
    /\ ~isModalOpen
    /\ \E id \in EntryIds(entries), confirmed \in BOOLEAN :
         /\ IF confirmed
            THEN /\ \E ok \in WriteOutcomes : Commit(handleDeleteEntry(entries, id, confirmed), ok)
                 /\ lastOp' = "delete"
            ELSE /\ entries' = handleDeleteEntry(entries, id, confirmed)
                 /\ lastWrite' = "none"
                 /\ lastOp' = "delete_declined"
                 /\ UNCHANGED <<slot, storageError, failures>>
         /\ lastId' = id
    /\ alerts' = <<>>
    /\ reply' = NoReply
    /\ UNCHANGED <<modalRev, summaryVars, gatewayVars, searchQuery, uploads, rev, pc, queued, isReflectingId, requests, crashed, uuidCount, saveArg,
                   modalVars>>

DismissWarning ==
    /\ pc = "ready"
    /\ Truthy(storageError)
    /\ storageError' = Null
    /\ lastWrite' = "none"
    /\ lastOp' = "dismiss"
    /\ lastId' = Null
    /\ alerts' = <<>>
    /\ reply' = NoReply
    /\ UNCHANGED <<modalRev, summaryVars, gatewayVars, searchQuery, uploads, rev, pc, slot, queued, entries,
                   isReflectingId, requests, crashed, uuidCount, failures,
                   saveArg, modalVars>>

\* ------------------------------------------------------- Reflection Gateway
\* env.gw is the revision of the gateway: 1 is services/geminiService.ts lines
\* 4-69, 2 is lines 72-165 of the same file, 3 is unnamed/part_002.  env.process
\* says whether the global process exists, env.apiKey is process.env.API_KEY,
\* env.strictSdk says whether the GoogleGenAI constructor throws on a missing key
\* (it does in the browser build of the SDK), env.service gives the outcomes the
\* external service produces in this run, for text and for image round trips.
UndefinedText == "'undefined'"      \* the nine-letter string, not the value undefined
ApiKeys == {Undefined, "", UndefinedText, "key"}

\* One round trip of ai.models.generateContent: a response with text, one with
\* no text, one with an inline image, one with no image part, a response that is
\* no object at all, a transport error, an authorization error, or a rejection
\* with null/undefined.
TextOutcomes == {"text", "empty", "malformed", "error", "auth", "throwNull"}
ImageOutcomes == {"image", "noimage", "malformed", "error", "auth", "throwNull"}
ThrownBy(outcome) ==
    CASE outcome \in {"error", "auth"} -> "Error"
      [] outcome = "malformed" -> "TypeError"
      [] outcome = "throwNull" -> "null"
      [] OTHER -> "none"
\* A request made with a key the service does not know ends in an authorization error.
ServiceOutcomes(e, kind) == IF e.apiKey = "key" THEN e.service[kind] ELSE {"auth"}
AnyService == [text |-> TextOutcomes, image |-> ImageOutcomes]

Fulfilled(v, sent) == [state |-> "fulfilled", value |-> v, sent |-> sent]
Rejected(thrown, sent) == [state |-> "rejected", value |-> thrown, sent |-> sent]

\* The catch blocks.  Revision 1 logs the caught value itself; revisions 2 and 3
\* log error.message, which throws a TypeError out of the catch block when the
\* caught value is null or undefined.
Catch(e, thrown, fallback, sent) ==
    IF e.gw = 1
    THEN Fulfilled(fallback, sent)
    ELSE IF thrown = "null" THEN Rejected("TypeError", sent) ELSE Fulfilled(fallback, sent)

\* new GoogleGenAI({ apiKey }): what it throws.
NewGoogleGenAI(e, apiKey) == IF apiKey = Undefined /\ e.strictSdk THEN "Error" ELSE "none"

\* Loading the module.  Revision 1 reads process.env and constructs the client at
\* module level; revisions 2 and 3 do nothing at module level.
LoadOutcome(e) ==
    IF e.gw # 1 THEN "loaded"
    ELSE IF ~e.process THEN "failed"
    ELSE IF NewGoogleGenAI(e, e.apiKey) # "none" THEN "failed"
    ELSE "loaded"

\* getAI: the client (TRUE), or null (FALSE), or a throw.
getAI(e) ==
    CASE e.gw = 1 -> [client |-> TRUE, thrown |-> "none"]
      [] e.gw = 2 ->
           LET apiKey == IF e.process THEN e.apiKey ELSE Undefined IN
           IF ~Truthy(apiKey) \/ apiKey = UndefinedText \/ apiKey = ""
           THEN [client |-> FALSE, thrown |-> "none"]
           ELSE [client |-> NewGoogleGenAI(e, apiKey) = "none", thrown |-> "none"]
      [] e.gw = 3 ->
           IF ~e.process THEN [client |-> FALSE, thrown |-> "ReferenceError"]
           ELSE IF ~Truthy(e.apiKey) \/ e.apiKey = UndefinedText
                THEN [client |-> FALSE, thrown |-> "Error"]
                ELSE [client |-> NewGoogleGenAI(e, e.apiKey) = "none",
                      thrown |-> NewGoogleGenAI(e, e.apiKey)]

ResponseText(outcome) == IF outcome = "text" THEN "r" ELSE ""

\* The shape the two text operations share: noKey is returned when getAI gives
\* null, default when the response has no text, fallback from the catch block.
TextOperation(e, outcome, noKey, default, fallback) ==
    LET ai == getAI(e) IN
    IF ai.thrown # "none" THEN Catch(e, ai.thrown, fallback, 0)
    ELSE IF ~ai.client THEN Fulfilled(noKey, 0)
    ELSE IF ThrownBy(outcome) # "none" THEN Catch(e, ThrownBy(outcome), fallback, 1)
    ELSE Fulfilled(IF Truthy(ResponseText(outcome)) THEN ResponseText(outcome) ELSE default, 1)

ReflectFallback(e) ==
    CASE e.gw = 1 -> "Error generating reflection."
      [] e.gw = 2 -> "A moment to remember."
      [] e.gw = 3 -> "The AI is currently quiet, but your memory is safely stored."
ReflectNoKey == "Your memory is safely stored. AI reflection is currently unavailable."
ReflectDefault == "A beautiful memory preserved."
generateEntryReflection(e, outcome) ==
    TextOperation(e, outcome, ReflectNoKey, ReflectDefault, ReflectFallback(e))

SummaryFallback(e) ==
    CASE e.gw = 1 -> "Could not generate summary."
      [] e.gw = 2 -> "Your diary is full of meaningful moments."
      [] e.gw = 3 -> "Could not generate summary at this time."
SummaryNoKey == "Your journey is a collection of beautiful threads."
SummaryDefault(e) ==
    IF e.gw = 1 THEN "Your year was a journey of moments."
    ELSE "Your journey is a collection of beautiful threads."
generateYearSummary(e, outcome) ==
    TextOperation(e, outcome, SummaryNoKey, SummaryDefault(e), SummaryFallback(e))

\* illustrate makes two round trips; run is <<o1>> when the first one throws and
\* <<o1, o2>> otherwise.
IllustrateRuns(e) ==
    {<<o1>> : o1 \in {o \in ServiceOutcomes(e, "text") : ThrownBy(o) # "none"}}
      \cup {<<o1, o2>> : o1 \in {o \in ServiceOutcomes(e, "text") : ThrownBy(o) = "none"},
                         o2 \in ServiceOutcomes(e, "image")}
\* Variant: the image request is sent whether or not the first request succeeded.
generateReflectionImage_BothSent(e, run) ==
    LET ai == getAI(e) IN
    IF ai.thrown # "none" THEN Catch(e, ai.thrown, Null, 0)
    ELSE IF ~ai.client THEN Fulfilled(Null, 0)
    ELSE IF ThrownBy(run[1]) # "none" THEN Catch(e, ThrownBy(run[1]), Null, 2)
    ELSE IF ThrownBy(run[2]) # "none" THEN Catch(e, ThrownBy(run[2]), Null, 2)
    ELSE Fulfilled(IF run[2] = "image" THEN "img" ELSE Null, 2)

generateReflectionImage(e, run) ==
    LET ai == getAI(e) IN
    IF ai.thrown # "none" THEN Catch(e, ai.thrown, Null, 0)
    ELSE IF ~ai.client THEN Fulfilled(Null, 0)
    ELSE IF ThrownBy(run[1]) # "none" THEN Catch(e, ThrownBy(run[1]), Null, 1)
    ELSE IF ThrownBy(run[2]) # "none" THEN Catch(e, ThrownBy(run[2]), Null, 2)
    ELSE Fulfilled(IF run[2] = "image" THEN "img" ELSE Null, 2)

\* Promise.all of the pair, and what the handlers keep of the settled pair.
PromiseAll(a, b) ==
    IF a.state = "rejected" THEN Rejected(a.value, a.sent + b.sent)
    ELSE IF b.state = "rejected" THEN Rejected(b.value, a.sent + b.sent)
    ELSE Fulfilled(<<a.value, b.value>>, a.sent + b.sent)
PairReply(q, o, run, a, b) ==
    [op |-> "pair", request |-> q, reflectOutcome |-> o, illustrateRun |-> run,
     reflect |-> a, illustrate |-> b]

\* ----------------------------------------------------- timeline enrichment
\* A click on an entry's reflect button starts nothing when TimelineEntry has the
\* button disabled (this entry is the one in flight) or when handleReflect returns
\* early (no such entry, or any id in flight).
\* Variant: the guard looks only at the clicked entry's own id.
ReflectBlocked_OwnIdOnly(ents, flag, id) == flag = id \/ id \notin EntryIds(ents)

\* Variant: no single-flight check at all.
ReflectBlocked_NoCheck(ents, flag, id) == id \notin EntryIds(ents)

ReflectBlocked(ents, flag, id) ==
    \/ flag = id
    \/ id \notin EntryIds(ents)
    \/ Truthy(flag)

EntryWithId(ents, id) == ents[CHOOSE i \in 1..Len(ents) : ents[i].id = id]

\* The pair generateEntryReflection(entry.content, entry.date) and
\* generateReflectionImage(entry.content) under one Promise.all.
TimelineRequest(entry) ==
    [src |-> "timeline", id |-> entry.id, content |-> entry.content, date |-> entry.date]

RequestsFrom(src) == [q \in {x \in DOMAIN requests : x.src = src} |-> requests[q]]
TimelineRequests == RequestsFrom("timeline")
ModalRequests == RequestsFrom("modal")
RequestsFor(id) ==
    [q \in {x \in DOMAIN requests : x.src = "timeline" /\ x.id = id} |-> requests[q]]

ReflectClick ==
    /\ pc = "ready"
    /\ ~isModalOpen
    /\ \E id \in EntryIds(entries) :
         /\ IF ReflectBlocked(entries, isReflectingId, id)
            THEN /\ lastOp' = "reflect_blocked"
                 /\ UNCHANGED <<isReflectingId, requests>>
            ELSE /\ BagCardinality(requests) < MaxInFlight
                 /\ isReflectingId' = id
                 /\ requests' = requests (+) SetToBag({TimelineRequest(EntryWithId(entries, id))})
                 /\ lastOp' = "reflect"
         /\ lastId' = id
    /\ NoCommit
    /\ alerts' = <<>>
    /\ reply' = NoReply
    /\ UNCHANGED <<modalRev, summaryVars, gatewayVars, searchQuery, uploads, rev, pc, queued, crashed, uuidCount, saveArg, modalVars>>

\* Variant: the write-back stores the image and leaves the reflection as it was.
WriteBack_ImageOnly(prev, id, reflection, aiImage) ==
    [i \in 1..Len(prev) |->
        IF prev[i].id = id
        THEN Spread(prev[i], [aiImage |-> IF Truthy(aiImage) THEN aiImage ELSE Undefined])
        ELSE prev[i]]

\* Variant: the write-back is applied to every entry of the collection.
WriteBack_EveryEntry(prev, id, reflection, aiImage) ==
    [i \in 1..Len(prev) |->
        Spread(prev[i], [aiReflection |-> reflection,
                         aiImage |-> IF Truthy(aiImage) THEN aiImage ELSE Undefined])]

WriteBack(prev, id, reflection, aiImage) ==
    [i \in 1..Len(prev) |->
        IF prev[i].id = id
        THEN Spread(prev[i], [aiReflection |-> reflection,
                              aiImage |-> IF Truthy(aiImage) THEN aiImage ELSE Undefined])
        ELSE prev[i]]

ReflectSettle ==
    /\ pc = "ready"
    /\ \E q \in DOMAIN TimelineRequests :
         /\ \E o \in ServiceOutcomes(env, "text"), run \in IllustrateRuns(env) :
              LET a == generateEntryReflection(env, o)
                  b == generateReflectionImage(env, run)
                  joined == PromiseAll(a, b)
              IN  /\ IF joined.state = "fulfilled"
                     THEN /\ \E ok \in WriteOutcomes :
                               Commit(WriteBack(entries, q.id, joined.value[1], joined.value[2]), ok)
                          /\ lastOp' = "enrich"
                     ELSE /\ NoCommit
                          /\ lastOp' = "enrich_rejected"
                  /\ reply' = PairReply(q, o, run, a, b)
         /\ requests' = requests (-) SetToBag({q})
         /\ lastId' = q.id
    /\ isReflectingId' = Null
    /\ alerts' = <<>>
    /\ UNCHANGED <<modalRev, summaryVars, gatewayVars, searchQuery, uploads, rev, pc, queued, crashed, uuidCount, saveArg, modalVars>>

\* ----------------------------------------------------------- specification
\* EntryModal's useState initial values.
DateInputOfNow == "2024-02-01T00:00"
ClosedModal ==
    [content |-> "", date |-> DateInputOfNow, images |-> <<>>, aiReflection |-> Undefined,
     aiImage |-> Undefined, isProcessing |-> FALSE, isReflecting |-> FALSE]
NoArg == [none |-> TRUE]

\* The gateway of part_002 with a configured key and a service that answers with
\* text and with or without an image, or rejects.
HealthyEnv ==
    [gw |-> 3, process |-> TRUE, apiKey |-> "key", strictSdk |-> TRUE,
     service |-> [text |-> {"text"}, image |-> {"image", "noimage", "throwNull"}]]

\* Items a first mount can find: nothing, text that is not an entry array, or an
\* array an earlier session wrote.
StoredEntry1 ==
    [id |-> IdOf(1), content |-> "a", date |-> "2024-01-01T00:00:00.000Z", images |-> <<>>,
     aiReflection |-> Undefined, aiImage |-> Undefined]
InitialSlots ==
    {AbsentSlot, SlotOf("empty", <<>>), SlotOf("corrupt", <<>>), SlotOf("nonarray", <<>>),
     JSONstringify(<<StoredEntry1>>)}

Init ==
    /\ rev \in {1, 2}
    /\ modalRev = 1
    /\ yearSummary = Null
    /\ isGeneratingSummary = FALSE
    /\ pc = "init"
    /\ slot \in InitialSlots
    /\ queued = <<>>
    /\ entries = <<>>
    /\ storageError = Null
    /\ isReflectingId = Null
    /\ requests = EmptyBag
    /\ crashed = FALSE
    /\ uuidCount = Cardinality(SlotIds(slot))
    /\ failures = 0
    /\ lastWrite = "none"
    /\ lastOp = "none"
    /\ lastId = Null
    /\ saveArg = NoArg
    /\ isModalOpen = FALSE
    /\ editingEntry = <<>>
    /\ modal = ClosedModal
    /\ searchQuery = ""
    /\ env = HealthyEnv
    /\ gatewayModule = "loaded"
    /\ reply = NoReply
    /\ uploads = EmptyBag
    /\ alerts = <<>>

Next ==
    \/ Mount
    \/ LoadCommit
    \/ Reload
    \/ SaveEntry
    \/ DeleteEntry
    \/ DismissWarning
    \/ ReflectClick
    \/ ReflectSettle

Spec == Init /\ [][Next]_vars

\* ------------------------------------------------------------- EntryModal
\* The timeline lies under the open modal's full-screen overlay, so the timeline
\* buttons and the New Entry buttons take clicks only while the modal is closed.
\* editingEntry is <<>> for null and <<entry>> for an entry.

\* new Date(iso).toISOString().slice(0, 16) and new Date(input).toISOString(), for a
\* browser whose time zone is UTC.
DateTable ==
    {<<"2024-01-01T00:00:00.000Z", "2024-01-01T00:00">>,
     <<"2024-02-01T00:00:00.000Z", "2024-02-01T00:00">>}
ToDateInput(iso) == (CHOOSE p \in DateTable : p[1] = iso)[2]
FromDateInput(input) == (CHOOSE p \in DateTable : p[2] = input)[1]

\* The effect on [initialData, isOpen]: it resets the five form fields and leaves
\* isProcessing and isReflecting as they are.
ResetModal(m, initialData) ==
    IF initialData # <<>>
    THEN [m EXCEPT !.content = initialData[1].content,
                   !.date = ToDateInput(initialData[1].date),
                   !.images = initialData[1].images,
                   !.aiReflection = Get(initialData[1], "aiReflection"),
                   !.aiImage = Get(initialData[1], "aiImage")]
    ELSE [m EXCEPT !.content = "",
                   !.date = DateInputOfNow,
                   !.images = <<>>,
                   !.aiReflection = Undefined,
                   !.aiImage = Undefined]

handleAddEntry ==
    /\ pc = "ready"
    /\ ~isModalOpen
    /\ editingEntry' = <<>>
    /\ isModalOpen' = TRUE
    /\ modal' = ResetModal(modal, <<>>)
    /\ lastOp' = "add"
    /\ lastId' = Null
    /\ NoCommit
    /\ alerts' = <<>>
    /\ reply' = NoReply
    /\ UNCHANGED <<modalRev, summaryVars, gatewayVars, searchQuery, uploads, rev, pc, queued, isReflectingId, requests, crashed, uuidCount, saveArg>>

handleEditEntry ==
    /\ pc = "ready"
    /\ ~isModalOpen
    /\ \E i \in 1..Len(entries) :
         /\ editingEntry' = <<entries[i]>>
         /\ modal' = ResetModal(modal, <<entries[i]>>)
         /\ lastId' = entries[i].id
    /\ isModalOpen' = TRUE
    /\ lastOp' = "open_edit"
    /\ NoCommit
    /\ alerts' = <<>>
    /\ reply' = NoReply
    /\ UNCHANGED <<modalRev, summaryVars, gatewayVars, searchQuery, uploads, rev, pc, queued, isReflectingId, requests, crashed, uuidCount, saveArg>>

CloseModal ==
    /\ isModalOpen
    /\ isModalOpen' = FALSE
    /\ modal' = ResetModal(modal, editingEntry)
    /\ lastOp' = "close"
    /\ lastId' = Null
    /\ NoCommit
    /\ alerts' = <<>>
    /\ reply' = NoReply
    /\ UNCHANGED <<modalRev, summaryVars, gatewayVars, searchQuery, uploads, rev, pc, queued, isReflectingId, requests, crashed, uuidCount, saveArg,
                   editingEntry>>

ModalContents == {"", " "} \cup Contents

\* The textarea's onChange.
SetContentFrom(contents) ==
    /\ isModalOpen
    /\ \E c \in contents :
         /\ c # modal.content
         /\ modal' = [modal EXCEPT !.content = c]
    /\ lastOp' = "type"
    /\ lastId' = Null
    /\ NoCommit
    /\ alerts' = <<>>
    /\ reply' = NoReply
    /\ UNCHANGED <<modalRev, summaryVars, gatewayVars, searchQuery, uploads, rev, pc, queued, isReflectingId, requests, crashed, uuidCount, saveArg,
                   isModalOpen, editingEntry>>

SetContent == SetContentFrom(ModalContents)

\* The date input's onChange.
SetDate ==
    /\ isModalOpen
    /\ \E p \in DateTable :
         /\ p[2] # modal.date
         /\ modal' = [modal EXCEPT !.date = p[2]]
    /\ lastOp' = "date"
    /\ lastId' = Null
    /\ NoCommit
    /\ alerts' = <<>>
    /\ reply' = NoReply
    /\ UNCHANGED <<modalRev, summaryVars, gatewayVars, searchQuery, uploads, rev, pc, queued, isReflectingId,
                   requests, crashed, uuidCount, saveArg, isModalOpen, editingEntry>>

\* The remove button on a photo of the form.
RemoveImage ==
    /\ isModalOpen
    /\ \E idx \in 1..Len(modal.images) :
         modal' = [modal EXCEPT !.images = SubSeq(@, 1, idx - 1) \o SubSeq(@, idx + 1, Len(@))]
    /\ lastOp' = "remove_image"
    /\ lastId' = Null
    /\ NoCommit
    /\ alerts' = <<>>
    /\ reply' = NoReply
    /\ UNCHANGED <<modalRev, summaryVars, gatewayVars, searchQuery, uploads, rev, pc, queued, isReflectingId,
                   requests, crashed, uuidCount, saveArg, isModalOpen, editingEntry>>

\* The modal's reflect button is disabled while isReflecting or on blank content;
\* handleReflect itself returns on blank content.
ModalReflectBlocked(m) == m.isReflecting \/ Trim(m.content) = ""

\* The edit a modal pair belongs to: the id of initialData, undefined for a new entry.
EditOf(initialData) == IF initialData # <<>> THEN initialData[1].id ELSE Undefined

ModalRequest(m, initialData) ==
    [src |-> "modal", id |-> EditOf(initialData), content |-> m.content, date |-> m.date]

ModalReflect ==
    /\ isModalOpen
    /\ IF ModalReflectBlocked(modal)
       THEN /\ lastOp' = "modal_reflect_blocked"
            /\ UNCHANGED <<modal, requests>>
       ELSE /\ BagCardinality(requests) < MaxInFlight
            /\ modal' = [modal EXCEPT !.isReflecting = TRUE]
            /\ requests' = requests (+) SetToBag({ModalRequest(modal, editingEntry)})
            /\ lastOp' = "modal_reflect"
    /\ lastId' = Null
    /\ NoCommit
    /\ alerts' = <<>>
    /\ reply' = NoReply
    /\ UNCHANGED <<modalRev, summaryVars, gatewayVars, searchQuery, uploads, rev, pc, queued, isReflectingId, crashed, uuidCount, saveArg,
                   isModalOpen, editingEntry>>

ModalSettle ==
    /\ \E q \in DOMAIN ModalRequests :
         /\ \E o \in ServiceOutcomes(env, "text"), run \in IllustrateRuns(env) :
              LET a == generateEntryReflection(env, o)
                  b == generateReflectionImage(env, run)
                  joined == PromiseAll(a, b)
              IN  /\ IF joined.state = "fulfilled"
                     THEN /\ modal' = [modal EXCEPT
                                         !.aiReflection = joined.value[1],
                                         !.aiImage = IF Truthy(joined.value[2])
                                                     THEN joined.value[2] ELSE Undefined,
                                         !.isReflecting = FALSE]
                          /\ lastOp' = "modal_settle"
                     ELSE /\ modal' = [modal EXCEPT !.isReflecting = FALSE]
                          /\ lastOp' = "modal_settle_rejected"
                  /\ reply' = PairReply(q, o, run, a, b)
         /\ requests' = requests (-) SetToBag({q})
    /\ lastId' = Null
    /\ NoCommit
    /\ alerts' = <<>>
    /\ UNCHANGED <<modalRev, summaryVars, gatewayVars, searchQuery, uploads, rev, pc, queued, isReflectingId, crashed, uuidCount, saveArg,
                   isModalOpen, editingEntry>>

\* The clear button of the AI preview; the first revision hides it while
\* isReflecting.
ClearAi ==
    /\ isModalOpen
    /\ Truthy(modal.aiReflection)
    /\ modalRev = 2 \/ ~modal.isReflecting
    /\ modal' = [modal EXCEPT !.aiReflection = Undefined, !.aiImage = Undefined]
    /\ lastOp' = "clear_ai"
    /\ lastId' = Null
    /\ NoCommit
    /\ alerts' = <<>>
    /\ reply' = NoReply
    /\ UNCHANGED <<modalRev, summaryVars, gatewayVars, searchQuery, uploads, rev, pc, queued, isReflectingId, requests, crashed, uuidCount, saveArg,
                   isModalOpen, editingEntry>>

\* Variant: the guard looks at the two flags only.
handleSaveReturnsEarly_FlagsOnly(m) == m.isProcessing \/ m.isReflecting

handleSaveReturnsEarly(m) == Trim(m.content) = "" \/ m.isProcessing \/ m.isReflecting

SaveData(m, initialData) ==
    [id |-> IF initialData # <<>> THEN initialData[1].id ELSE Undefined,
     content |-> m.content,
     date |-> FromDateInput(m.date),
     images |-> m.images,
     aiReflection |-> m.aiReflection,
     aiImage |-> m.aiImage]

handleSave ==
    /\ isModalOpen
    /\ IF handleSaveReturnsEarly(modal)
       THEN /\ lastOp' = "save_blocked"
            /\ lastId' = Null
            /\ NoCommit
            /\ UNCHANGED <<uuidCount, modalVars>>
       ELSE LET data == SaveData(modal, editingEntry) IN
            /\ Truthy(data.id) \/ uuidCount < MaxIds
            /\ \E ok \in WriteOutcomes :
                 Commit(handleSaveEntry(entries, data, IdOf(uuidCount + 1), Now), ok)
            /\ uuidCount' = IF Truthy(data.id) THEN uuidCount ELSE uuidCount + 1
            /\ lastOp' = IF Truthy(data.id) THEN "edit" ELSE "create"
            /\ lastId' = IF Truthy(data.id) THEN data.id ELSE IdOf(uuidCount + 1)
            /\ isModalOpen' = FALSE
            /\ modal' = ResetModal(modal, editingEntry)
            /\ UNCHANGED editingEntry
    /\ alerts' = <<>>
    /\ reply' = NoReply
    /\ UNCHANGED <<modalRev, summaryVars, gatewayVars, searchQuery, uploads, rev, pc, queued, isReflectingId, requests, crashed, saveArg>>

\* The modal is followed under the second revision of App, on a browser whose
\* storage accepts every write, so the storage warning and its dismiss button
\* never appear.
InitModal ==
    /\ rev = 2
    /\ modalRev = 1
    /\ yearSummary = Null
    /\ isGeneratingSummary = FALSE
    /\ pc = "ready"
    /\ entries \in {<<>>, <<StoredEntry1>>}
    /\ slot = IF entries = <<>> THEN AbsentSlot ELSE JSONstringify(entries)
    /\ queued = <<>>
    /\ storageError = Null
    /\ isReflectingId = Null
    /\ requests = EmptyBag
    /\ crashed = FALSE
    /\ uuidCount = Len(entries)
    /\ failures = MaxFailures
    /\ lastWrite = "none"
    /\ lastOp = "none"
    /\ lastId = Null
    /\ saveArg = NoArg
    /\ isModalOpen = FALSE
    /\ editingEntry = <<>>
    /\ modal = ClosedModal
    /\ searchQuery = ""
    /\ env = HealthyEnv
    /\ gatewayModule = "loaded"
    /\ reply = NoReply
    /\ uploads = EmptyBag
    /\ alerts = <<>>

NextModal ==
    \/ handleAddEntry
    \/ handleEditEntry
    \/ CloseModal
    \/ SetContent
    \/ ModalReflect
    \/ ModalSettle
    \/ ClearAi
    \/ handleSave
    \/ DeleteEntry
    \/ ReflectClick
    \/ ReflectSettle

SpecModal == InitModal /\ [][NextModal]_vars

\* ------------------------------------------- handleSaveEntry on any argument
\* handleSaveEntry takes any Partial<DiaryEntry>: each property may be missing,
\* and id, aiReflection and aiImage may be present with the value undefined.
Keys == {"id", "content", "date", "images", "aiReflection", "aiImage"}
UnknownId == "no-such-id"
FullData ==
    {[id |-> i, content |-> c, date |-> d, images |-> im, aiReflection |-> r, aiImage |-> a] :
        i \in {Undefined, IdOf(1), IdOf(2), UnknownId},
        c \in {"", "b"},
        d \in {"2024-03-01T00:00:00.000Z"},
        im \in {<<>>, <<"photo">>},
        r \in {Undefined, "r2"},
        a \in {Undefined, "img2"}}
Restrict(d, K) == [k \in K |-> d[k]]
PartialData == {Restrict(d, K) : d \in FullData, K \in SUBSET Keys}

EnrichedEntry2 ==
    [id |-> IdOf(2), content |-> "a", date |-> "2024-01-01T00:00:00.000Z",
     images |-> <<"photo">>, aiReflection |-> "r", aiImage |-> "img"]
MergeCollections ==
    {<<>>, <<StoredEntry1>>, <<EnrichedEntry2, StoredEntry1>>,
     JSONparse(JSONstringify(<<EnrichedEntry2, StoredEntry1>>)).value}

InitMerge ==
    /\ rev \in {1, 2}
    /\ modalRev = 1
    /\ yearSummary = Null
    /\ isGeneratingSummary = FALSE
    /\ pc = "ready"
    /\ entries \in MergeCollections
    /\ slot = IF entries = <<>> THEN AbsentSlot ELSE JSONstringify(entries)
    /\ queued = <<>>
    /\ storageError = Null
    /\ isReflectingId = Null
    /\ requests = EmptyBag
    /\ crashed = FALSE
    /\ uuidCount = Len(entries)
    /\ failures = 0
    /\ lastWrite = "none"
    /\ lastOp = "none"
    /\ lastId = Null
    /\ saveArg \in PartialData
    /\ isModalOpen = FALSE
    /\ editingEntry = <<>>
    /\ modal = ClosedModal
    /\ searchQuery = ""
    /\ env = HealthyEnv
    /\ gatewayModule = "loaded"
    /\ reply = NoReply
    /\ uploads = EmptyBag
    /\ alerts = <<>>

ApplySave ==
    /\ pc = "ready"
    /\ lastOp = "none"
    /\ saveArg # NoArg
    /\ \E ok \in WriteOutcomes :
         Commit(handleSaveEntry(entries, saveArg, IdOf(uuidCount + 1), Now), ok)
    /\ uuidCount' = IF Truthy(Get(saveArg, "id")) THEN uuidCount ELSE uuidCount + 1
    /\ lastOp' = IF Truthy(Get(saveArg, "id")) THEN "edit" ELSE "create"
    /\ lastId' = IF Truthy(Get(saveArg, "id")) THEN saveArg.id ELSE IdOf(uuidCount + 1)
    /\ alerts' = <<>>
    /\ reply' = NoReply
    /\ UNCHANGED <<modalRev, summaryVars, gatewayVars, searchQuery, uploads, rev, pc, queued, isReflectingId, requests, crashed, saveArg, modalVars>>

SpecMerge == InitMerge /\ [][ApplySave]_vars

\* The same run of the store when the user never deletes.
NextNoDelete ==
    \/ Mount
    \/ LoadCommit
    \/ Reload
    \/ SaveEntry
    \/ DismissWarning
    \/ ReflectClick
    \/ ReflectSettle

SpecNoDelete == Init /\ [][NextNoDelete]_vars

\* ------------------------------------------------------------------ claims
Mutations == {"create", "edit", "delete", "enrich"}

SameFields(a, b) ==
    /\ Len(a) = Len(b)
    /\ \A i \in 1..Len(a) :
         /\ a[i].id = b[i].id
         /\ a[i].content = b[i].content
         /\ a[i].date = b[i].date
         /\ a[i].images = b[i].images
         /\ Get(a[i], "aiReflection") = Get(b[i], "aiReflection")
         /\ Get(a[i], "aiImage") = Get(b[i], "aiImage")

\* C1: after every create, edit, delete or enrichment whose storage write did not
\* fail, the slot holds the serialization of the current in-memory collection,
\* also when a delete has left the collection empty.
C1_SlotMirrorsEntries ==
    (lastOp \in Mutations /\ lastWrite # "failed") => slot = JSONstringify(entries)

\* C2: with no user delete, every step (startup steps and later writes, failed
\* ones included) keeps in the slot every entry id the slot held before it.
C2_PersistedEntriesKept ==
    [][SlotIds(slot) \subseteq SlotIds(slot')]_vars

\* C3: a new-entry save puts exactly one more entry in the collection, in front of
\* the unchanged old ones, and its id is none of the ids already there.
C3_CreateAddsOneFreshEntry ==
    [][lastOp' = "create" =>
          /\ Len(entries') = Len(entries) + 1
          /\ entries' = <<entries'[1]>> \o entries
          /\ entries'[1].id \notin EntryIds(entries)]_vars

C3_Witness ==
    /\ lastOp = "create"
    /\ Len(entries) = 2
    /\ entries[1].content = "a"

C5_UpdateMergesSuppliedFields ==
    [][lastOp' = "edit" =>
          /\ Len(entries') = Len(entries)
          /\ \A i \in 1..Len(entries) :
               IF entries[i].id = lastId'
               THEN /\ entries'[i].id = entries[i].id
                    /\ \A k \in Keys :
                         IF k \in DOMAIN saveArg
                         THEN k \in DOMAIN entries'[i] /\ entries'[i][k] = saveArg[k]
                         ELSE /\ (k \in DOMAIN entries'[i]) = (k \in DOMAIN entries[i])
                              /\ k \in DOMAIN entries[i] => entries'[i][k] = entries[i][k]
               ELSE entries'[i] = entries[i]
          /\ lastId' \notin EntryIds(entries) => entries' = entries]_vars

C5_Witness ==
    /\ lastOp = "edit"
    /\ DOMAIN saveArg = {"id", "content"}
    /\ \E i \in 1..Len(entries) :
         /\ entries[i].id = lastId
         /\ entries[i].content = "b"
         /\ entries[i].images = <<"photo">>
         /\ Get(entries[i], "aiReflection") = "r"

\* C6: after a successful write, what the load effect reads back from the slot has
\* the same ids, content, dates, images and AI fields in the same order as the
\* collection in memory, and startup puts exactly that into entries.
C6_RoundTrip ==
    /\ [](lastWrite = "ok" =>
            LET l == LoadEffect(rev, slot) IN l.set /\ SameFields(l.value, entries))
    /\ [][pc = "init" => queued' = LoadEffect(rev, slot).value]_vars
    /\ [][(pc = "loaded" /\ pc' = "ready") => entries' = queued]_vars

C6_Witness ==
    /\ lastOp = "load"
    /\ lastWrite = "ok"
    /\ Len(entries) = 2
    /\ \E i \in 1..Len(entries) :
         /\ Get(entries[i], "aiReflection") = "r"
         /\ "aiImage" \notin DOMAIN entries[i]
    /\ \E i \in 1..Len(entries) : Get(entries[i], "aiImage") = "img"

\* C7: mounting on a slot that is absent, unparseable or not an array leaves the
\* collection empty, queues no loaded array and lets no exception escape.
C7_BadSlotLoadsEmpty ==
    [][(pc = "init" /\ slot.kind # "array") =>
          /\ pc' = "ready"
          /\ entries' = <<>>
          /\ queued' = <<>>
          /\ ~crashed']_vars

C7_Witness ==
    /\ lastOp = "mount"
    /\ pc = "ready"
    /\ entries = <<>>
    /\ slot.kind \in {"corrupt", "nonarray"}

\* C8: a rejected write raises the warning, lets nothing escape, leaves the slot
\* as it was and keeps the mutation in memory; after a write that succeeds the
\* slot holds every in-memory entry.
C8_WriteFailureContained ==
    /\ [](lastWrite = "failed" => (storageError = StorageWarning /\ ~crashed))
    /\ [](lastWrite = "ok" =>
            (Len(slot.items) = Len(entries) /\ SlotIds(slot) = EntryIds(entries)))
    /\ [][failures' > failures =>
            /\ slot' = slot
            /\ lastOp' = "create" => lastId' \in EntryIds(entries')
            /\ lastOp' = "delete" => lastId' \notin EntryIds(entries')
            /\ lastOp' \in {"edit", "enrich"} => EntryIds(entries') = EntryIds(entries)
            /\ lastOp' = "load" => entries' = queued]_vars

C8_Witness ==
    /\ failures > 0
    /\ lastWrite = "ok"
    /\ lastOp = "edit"
    /\ Len(entries) = 2
    /\ SlotIds(slot) = EntryIds(entries)

\* C9: at most one timeline pair is outstanding per entry, and a reflect click on
\* an entry whose pair is still outstanding issues nothing.
C9_OnePairPerEntry ==
    /\ [](\A id \in Ids : BagCardinality(RequestsFor(id)) <= 1)
    /\ [][(/\ lastOp' \in {"reflect", "reflect_blocked"}
           /\ BagCardinality(RequestsFor(lastId')) > 0) => requests' = requests]_vars

C9_Witness ==
    /\ lastOp = "reflect_blocked"
    /\ lastId = isReflectingId
    /\ BagCardinality(RequestsFor(lastId)) = 1

C11_LateResultDiscarded ==
    [][\A q \in DOMAIN ModalRequests :
          (/\ lastOp' = "modal_settle"
           /\ requests' = requests (-) SetToBag({q})
           /\ isModalOpen
           /\ q.id # EditOf(editingEntry)) =>
              /\ modal'.aiReflection = modal.aiReflection
              /\ modal'.aiImage = modal.aiImage]_vars

\* ------------------------------------------------- the gateway on its own
GatewayEnvs ==
    {[gw |-> g, process |-> p, apiKey |-> k, strictSdk |-> x, service |-> AnyService] :
        g \in 1..3, p \in BOOLEAN, k \in ApiKeys, x \in BOOLEAN}

InitGateway ==
    /\ rev = 2
    /\ modalRev = 1
    /\ yearSummary = Null
    /\ isGeneratingSummary = FALSE
    /\ pc = "init"
    /\ slot = AbsentSlot
    /\ queued = <<>>
    /\ entries = <<>>
    /\ storageError = Null
    /\ isReflectingId = Null
    /\ requests = EmptyBag
    /\ crashed = FALSE
    /\ uuidCount = 0
    /\ failures = 0
    /\ lastWrite = "none"
    /\ lastOp = "none"
    /\ lastId = Null
    /\ saveArg = NoArg
    /\ isModalOpen = FALSE
    /\ editingEntry = <<>>
    /\ modal = ClosedModal
    /\ searchQuery = ""
    /\ env \in {e \in GatewayEnvs : ~e.process => e.apiKey = Undefined}
    /\ gatewayModule = "unloaded"
    /\ reply = NoReply
    /\ uploads = EmptyBag
    /\ alerts = <<>>

appVars ==
    <<rev, modalRev, summaryVars, pc, slot, queued, entries, storageError, isReflectingId,
      requests, crashed, uuidCount, failures, lastWrite, lastId, saveArg, modalVars, searchQuery, uploads,
      alerts>>

\* The import of the module by App.
LoadGateway ==
    /\ gatewayModule = "unloaded"
    /\ gatewayModule' = LoadOutcome(env)
    /\ lastOp' = "import"
    /\ reply' = NoReply
    /\ UNCHANGED <<env, appVars>>

CallReflect ==
    /\ gatewayModule = "loaded"
    /\ \E o \in ServiceOutcomes(env, "text") :
         reply' = [op |-> "reflect", run |-> <<o>>, result |-> generateEntryReflection(env, o)]
    /\ lastOp' = "call"
    /\ UNCHANGED <<env, gatewayModule, appVars>>

CallIllustrate ==
    /\ gatewayModule = "loaded"
    /\ \E run \in IllustrateRuns(env) :
         reply' = [op |-> "illustrate", run |-> run, result |-> generateReflectionImage(env, run)]
    /\ lastOp' = "call"
    /\ UNCHANGED <<env, gatewayModule, appVars>>

CallSummarize ==
    /\ gatewayModule = "loaded"
    /\ \E o \in ServiceOutcomes(env, "text") :
         reply' = [op |-> "summarize", run |-> <<o>>, result |-> generateYearSummary(env, o)]
    /\ lastOp' = "call"
    /\ UNCHANGED <<env, gatewayModule, appVars>>

NextGateway ==
    \/ LoadGateway
    \/ CallReflect
    \/ CallIllustrate
    \/ CallSummarize

SpecGateway == InitGateway /\ [][NextGateway]_vars

\* No credential is configured: the key is missing, empty or the text "undefined".
NoCredential(e) == ~e.process \/ e.apiKey \in {Undefined, "", UndefinedText}
\* The same environment with a configured key.
WithKey(e) == [e EXCEPT !.process = TRUE, !.apiKey = "key"]
CallOps == {"reflect", "illustrate", "summarize"}
FallbackStrings(e) ==
    {ReflectNoKey, ReflectFallback(e), SummaryNoKey, SummaryFallback(e)}

\* C12: with no configured credential the import of the gateway does not fail,
\* reflect and summarize are fulfilled with a fallback string and illustrate is
\* fulfilled with null.
C12_NoCredentialFallback ==
    NoCredential(env) =>
        /\ gatewayModule # "failed"
        /\ reply.op \in CallOps => reply.result.state = "fulfilled"
        /\ reply.op \in {"reflect", "summarize"} => reply.result.value \in FallbackStrings(env)
        /\ reply.op = "illustrate" => reply.result.value = Null

\* C13: with the key missing, empty or "undefined", an operation sends no request
\* and returns what the same operation returns when its service call fails.
C13_NoKeySameFallback ==
    (NoCredential(env) /\ reply.op \in CallOps) =>
        /\ reply.result.sent = 0
        /\ reply.op = "reflect" =>
              reply.result = [generateEntryReflection(WithKey(env), "error") EXCEPT !.sent = 0]
        /\ reply.op = "summarize" =>
              reply.result = [generateYearSummary(WithKey(env), "error") EXCEPT !.sent = 0]
        /\ reply.op = "illustrate" =>
              reply.result = [generateReflectionImage(WithKey(env), <<"error">>) EXCEPT !.sent = 0]

\* C14: whatever the service does, a call of reflect or summarize is fulfilled
\* with a string and a call of illustrate is fulfilled with a payload or null;
\* none is rejected.
C14_NeverRejects ==
    reply.op \in CallOps => reply.result.state = "fulfilled"

\* ------------------------------------- enrichment against any service outcome
\* A service that answers, fails with an error, or rejects with null.
FailingService ==
    [text |-> {"text", "error", "throwNull"},
     image |-> {"image", "noimage", "error", "throwNull"}]
EnrichEnvs ==
    {[gw |-> g, process |-> TRUE, apiKey |-> "key", strictSdk |-> FALSE,
      service |-> FailingService] : g \in 1..3}

InitEnrich ==
    /\ rev = 2
    /\ modalRev = 1
    /\ yearSummary = Null
    /\ isGeneratingSummary = FALSE
    /\ pc = "ready"
    /\ entries = <<StoredEntry1>>
    /\ slot = JSONstringify(entries)
    /\ queued = <<>>
    /\ storageError = Null
    /\ isReflectingId = Null
    /\ requests = EmptyBag
    /\ crashed = FALSE
    /\ uuidCount = Len(entries)
    /\ failures = MaxFailures
    /\ lastWrite = "none"
    /\ lastOp = "none"
    /\ lastId = Null
    /\ saveArg = NoArg
    /\ isModalOpen = FALSE
    /\ editingEntry = <<>>
    /\ modal = ClosedModal
    /\ searchQuery = ""
    /\ env \in EnrichEnvs
    /\ gatewayModule = "loaded"
    /\ reply = NoReply
    /\ uploads = EmptyBag
    /\ alerts = <<>>

NextEnrich ==
    \/ ReflectClick
    \/ ReflectSettle
    \/ handleEditEntry
    \/ CloseModal
    \/ ModalReflect
    \/ ModalSettle

SpecEnrich == InitEnrich /\ [][NextEnrich]_vars

\* A call of the pair failed when one of its round trips threw.
ReflectFailed(r) == ThrownBy(r.reflectOutcome) # "none"
IllustrateFailed(r) == \E k \in 1..Len(r.illustrateRun) : ThrownBy(r.illustrateRun[k]) # "none"
TimelineSettled == lastOp \in {"enrich", "enrich_rejected"}
ModalSettled == lastOp \in {"modal_settle", "modal_settle_rejected"}

\* C15: when exactly one call of a settled pair failed, the result of the other is
\* kept: the reflection text if illustrate failed, the image if reflect failed, on
\* the entry for a timeline pair and in the form for a modal pair.
C15_OneFailureKeepsOther ==
    /\ (TimelineSettled /\ IllustrateFailed(reply) /\ ~ReflectFailed(reply)) =>
          Get(EntryWithId(entries, lastId), "aiReflection") = reply.reflect.value
    /\ (TimelineSettled /\ ReflectFailed(reply) /\ reply.illustrate.value = "img") =>
          Get(EntryWithId(entries, lastId), "aiImage") = "img"
    /\ (ModalSettled /\ IllustrateFailed(reply) /\ ~ReflectFailed(reply)) =>
          modal.aiReflection = reply.reflect.value
    /\ (ModalSettled /\ ReflectFailed(reply) /\ reply.illustrate.value = "img") =>
          modal.aiImage = "img"

\* C16: the write-back of a timeline pair sets aiReflection and aiImage of the
\* entry in one step, and when both calls failed it leaves both as they were
\* (unset on an entry that was not enriched before).
C16_BothOrNeither ==
    [][/\ lastOp' = "enrich" =>
            /\ Get(EntryWithId(entries', lastId'), "aiReflection") = reply'.reflect.value
            /\ Get(EntryWithId(entries', lastId'), "aiImage") =
                  (IF Truthy(reply'.illustrate.value) THEN reply'.illustrate.value ELSE Undefined)
       /\ (lastOp' \in {"enrich", "enrich_rejected"}
            /\ ReflectFailed(reply') /\ IllustrateFailed(reply')) =>
            /\ Get(EntryWithId(entries', lastId'), "aiReflection")
                  = Get(EntryWithId(entries, lastId'), "aiReflection")
            /\ Get(EntryWithId(entries', lastId'), "aiImage")
                  = Get(EntryWithId(entries, lastId'), "aiImage")]_vars

\* ------------------------------------------------------------ the read view
ViewEntry(n, content, date) ==
    [id |-> IdOf(n), content |-> content, date |-> date, images |-> <<>>,
     aiReflection |-> Undefined, aiImage |-> Undefined]
ViewEntries ==
    {ViewEntry(1, "alpha trip", "2024-01-01T00:00:00.000Z"),
     ViewEntry(2, "beta day", "2024-02-01T00:00:00.000Z"),
     ViewEntry(3, "Alpha Beta", "2024-02-01T00:00:00.000Z"),
     ViewEntry(4, "zeta", "2023-12-31T23:59:00.000Z")}
\* Collections in any storage order: the user picks each entry's date.
ViewCollections ==
    UNION {{c \in [1..n -> ViewEntries] : \A i, j \in 1..n : i # j => c[i] # c[j]} :
              n \in 0..MaxViewLen}
Queries == {"", "alpha", "ALPHA", "a b", "2024-02", "T", "t", "Z", "x"}

InitView ==
    /\ rev = 2
    /\ modalRev = 1
    /\ yearSummary = Null
    /\ isGeneratingSummary = FALSE
    /\ pc = "ready"
    /\ entries \in ViewCollections
    /\ slot = JSONstringify(entries)
    /\ queued = <<>>
    /\ storageError = Null
    /\ isReflectingId = Null
    /\ requests = EmptyBag
    /\ crashed = FALSE
    /\ uuidCount = Cardinality(ViewEntries)
    /\ failures = MaxFailures
    /\ lastWrite = "none"
    /\ lastOp = "none"
    /\ lastId = Null
    /\ saveArg = NoArg
    /\ isModalOpen = FALSE
    /\ editingEntry = <<>>
    /\ modal = ClosedModal
    /\ searchQuery = ""
    /\ env = HealthyEnv
    /\ gatewayModule = "loaded"
    /\ reply = NoReply
    /\ uploads = EmptyBag
    /\ alerts = <<>>

\* Typing in the search box: the render with the new query recomputes the memo.
SetSearchQuery ==
    /\ pc = "ready"
    /\ ~isModalOpen
    /\ \E q \in Queries :
         /\ q # searchQuery
         /\ searchQuery' = q
         /\ entries' = EntriesAfterRender(entries, q)
    /\ lastWrite' = "none"
    /\ lastOp' = "search"
    /\ lastId' = Null
    /\ alerts' = <<>>
    /\ reply' = NoReply
    /\ UNCHANGED <<modalRev, summaryVars, gatewayVars, uploads, rev, pc, slot, queued, storageError, isReflectingId,
                   requests, crashed, uuidCount, failures, saveArg, modalVars>>

NextView ==
    \/ SetSearchQuery
    \/ DeleteEntry

SpecView == InitView /\ [][NextView]_vars

\* content contains query when letter case is ignored: at some offset every
\* letter of the query is, up to case, the letter of the content there.
ContainsIgnoringCase(text, q) ==
    \E i \in 0..(Len(text) - Len(q)) :
        \A j \in 1..Len(q) :
            LowerChar(SubSeq(text, i + j, i + j)) = LowerChar(SubSeq(q, j, j))
ContainsLiterally(text, q) ==
    \E i \in 0..(Len(text) - Len(q)) :
        \A j \in 1..Len(q) : SubSeq(text, i + j, i + j) = SubSeq(q, j, j)
InView(e) == \E k \in 1..Len(filteredEntries) : filteredEntries[k] = e

\* C17: the read view holds exactly the entries whose content contains the query
\* with case ignored or whose date string contains the query literally, each
\* once; with the empty query it holds every entry.
C17_ViewIsTheMatches ==
    /\ \A i \in 1..Len(entries) :
          InView(entries[i]) <=>
             (ContainsIgnoringCase(entries[i].content, searchQuery)
                \/ ContainsLiterally(entries[i].date, searchQuery))
    /\ \A k \in 1..Len(filteredEntries) : \E i \in 1..Len(entries) : entries[i] = filteredEntries[k]
    /\ \A k, l \in 1..Len(filteredEntries) : k # l => filteredEntries[k] # filteredEntries[l]
    /\ searchQuery = "" => Len(filteredEntries) = Len(entries)

C17_Witness ==
    /\ lastOp = "search"
    /\ searchQuery = "ALPHA"
    /\ Len(entries) = 3
    /\ Len(filteredEntries) = 2

\* a is dated later than b: at the first place where the two ISO strings differ,
\* a has the larger digit.
DigitPlaces == {1, 2, 3, 4, 6, 7, 9, 10, 12, 13, 15, 16, 18, 19, 21, 22, 23}
Later(a, b) ==
    \E k \in DigitPlaces :
        /\ SubSeq(a.date, 1, k - 1) = SubSeq(b.date, 1, k - 1)
        /\ DigitOf(SubSeq(a.date, k, k)) > DigitOf(SubSeq(b.date, k, k))

File(name, type, decodes, width, height) ==
    [name |-> name, type |-> type, decodes |-> decodes, width |-> width, height |-> height]
Files ==
    {File("a.png", "image/png", TRUE, 800, 600),
     File("b.jpg", "image/jpeg", TRUE, 3000, 1501),
     File("c.png", "image/png", FALSE, 0, 0),
     File("n.txt", "text/plain", FALSE, 0, 0)}
FileLists ==
    UNION {{l \in [1..n -> Files] : \A i, j \in 1..n : i # j => l[i] # l[j]} :
              n \in 0..MaxBatchLen}

startsWith(str, prefix) == Len(str) >= Len(prefix) /\ SubSeq(str, 1, Len(prefix)) = prefix
ImageFiles(files) == SelectSeq(files, LAMBDA f : startsWith(f.type, "image/"))

\* MAX_WIDTH and MAX_HEIGHT of the revision.
Cap(r) == IF r = 1 THEN 1000 ELSE 1200

\* side * (cap / long) in double precision, assigned to canvas.width or
\* canvas.height, which truncates it to an integer.  The quotient and the product
\* are each rounded; the rounded product is never above the exact one, and when
\* the exact one is a whole number it may fall just below it (49 * (1000 / 49000)
\* is 0.9999999999999999), so that the truncation gives one less.
Truncated(side, cap, long) ==
    IF (side * cap) % long = 0 /\ side * cap >= long
    THEN {(side * cap) \div long - 1, (side * cap) \div long}
    ELSE {(side * cap) \div long}

\* Variant: the image is always brought to the cap, also when it is smaller.
Resize_Always(cap, width, height) ==
    IF width > height
    THEN {<<cap, h>> : h \in Truncated(height, cap, width)}
    ELSE {<<w, cap>> : w \in Truncated(width, cap, height)}

\* The canvas sizes the resizing in img.onload can give.
Resize(cap, width, height) ==
    IF width > height
    THEN IF width > cap
         THEN {<<cap, h>> : h \in Truncated(height, cap, width)}
         ELSE {<<width, height>>}
    ELSE IF height > cap
         THEN {<<w, cap>> : w \in Truncated(width, cap, height)}
         ELSE {<<width, height>>}

\* canvas.toDataURL: the picture of the file at the canvas size.
toDataURL(file, size) == [of |-> file.name, width |-> size[1], height |-> size[2]]
\* The ways the promise of optimizeImage can settle.
optimizeImage(r, file) ==
    IF file.decodes
    THEN {Fulfilled(toDataURL(file, size), 0) : size \in Resize(Cap(r), file.width, file.height)}
    ELSE {Rejected("Event", 0)}

\* A batch inside its Promise.all: the list handed to processFiles, the files
\* optimizeImage was started on, and the values of those that have resolved with
\* their places, in the order they resolved.
NewUpload(files) == [submitted |-> files, optimizing |-> ImageFiles(files), done |-> <<>>]
Pending(u) == {i \in 1..Len(u.optimizing) : \A k \in 1..Len(u.done) : u.done[k].at # i}
RECURSIVE Optimizing(_)
Optimizing(ups) ==
    IF DOMAIN ups = {} THEN 0
    ELSE LET u == CHOOSE x \in DOMAIN ups : TRUE
         IN  ups[u] * Len(u.optimizing) + Optimizing([x \in DOMAIN ups \ {u} |-> ups[x]])

\* Variant: the payloads are collected as the files finish.
PromiseAllValues_AsCompleted(u) == [k \in 1..Len(u.done) |-> u.done[k].value]

\* Promise.all fulfils with the values in the order of the promises it was given.
PromiseAllValues(u) ==
    [i \in 1..Len(u.optimizing) |->
        u.done[CHOOSE k \in 1..Len(u.done) : u.done[k].at = i].value]

AlertMessage(r) ==
    IF r = 1 THEN "Error processing images. They might be too large."
    ELSE "Failed to process images. Storage may be full."
\* Variant: a failed batch leaves isProcessing set.
processFilesCatch_FlagLeftSet(m, u) ==
    [modal |-> m, alerts |-> <<AlertMessage(modalRev)>>]

\* Variant: the catch block keeps what had been processed before the failure.
processFilesCatch_KeepsDone(m, u) ==
    [modal |-> [m EXCEPT !.images = @ \o PromiseAllValues_AsCompleted(u),
                         !.isProcessing = FALSE],
     alerts |-> <<AlertMessage(modalRev)>>]

\* try, catch and finally of processFiles after the await.
processFilesCatch(m, u) ==
    [modal |-> [m EXCEPT !.isProcessing = FALSE], alerts |-> <<AlertMessage(modalRev)>>]
processFilesThen(m, u) ==
    [modal |-> [m EXCEPT !.images = @ \o PromiseAllValues(u), !.isProcessing = FALSE],
     alerts |-> <<>>]
UploadReply(u, state) == [op |-> "processFiles", submitted |-> u.submitted, state |-> state]

\* The most images the form, the entry it was opened on or an entry of the
\* collection holds: a batch that ends appends to whichever of them is in the
\* form by then.
HeldImages ==
    LET lens == {Len(modal.images)}
                  \cup {Len(entries[i].images) : i \in 1..Len(entries)}
                  \cup {Len(editingEntry[i].images) : i \in 1..Len(editingEntry)}
    IN  CHOOSE n \in lens : \A k \in lens : k <= n

\* The file input's onChange or the drop zone's onDrop.  The Add Photos button is
\* disabled while isProcessing, the drop zone never is; the drop handler of the
\* second revision passes on only a list that is not empty.  With no image file
\* in the list Promise.all([]) is fulfilled at once and the handler runs to its end.
StartBatch(lists, room) ==
    /\ isModalOpen
    /\ BagCardinality(uploads) < MaxUploads
    /\ \E files \in lists :
         LET u == NewUpload(files) IN
         /\ files # <<>> \/ modalRev = 1
         /\ HeldImages + Optimizing(uploads) + Len(u.optimizing) <= room
         /\ IF u.optimizing = <<>>
            THEN /\ modal' = processFilesThen([modal EXCEPT !.isProcessing = TRUE], u).modal
                 /\ reply' = UploadReply(u, "fulfilled")
                 /\ lastOp' = "batch_done"
                 /\ UNCHANGED uploads
            ELSE /\ modal' = [modal EXCEPT !.isProcessing = TRUE]
                 /\ uploads' = uploads (+) SetToBag({u})
                 /\ reply' = NoReply
                 /\ lastOp' = "batch_start"
    /\ alerts' = <<>>
    /\ lastId' = Null
    /\ NoCommit
    /\ UNCHANGED <<modalRev, summaryVars, gatewayVars, searchQuery, rev, pc, queued, isReflectingId, requests,
                   crashed, uuidCount, saveArg, isModalOpen, editingEntry>>

processFiles == StartBatch(FileLists, MaxImages)

\* One optimizeImage promise settles.  A rejection rejects the Promise.all, and
\* the last fulfilment fulfils it; processFiles then runs on in the same task.
OptimizeSettles ==
    /\ \E u \in DOMAIN uploads :
         \E i \in Pending(u) :
            \E r \in optimizeImage(modalRev, u.optimizing[i]) :
               LET v == [u EXCEPT !.done = Append(@, [at |-> i, value |-> r.value])]
               IN  IF r.state = "rejected"
                   THEN /\ modal' = processFilesCatch(modal, u).modal
                        /\ alerts' = processFilesCatch(modal, u).alerts
                        /\ uploads' = uploads (-) SetToBag({u})
                        /\ reply' = UploadReply(u, "rejected")
                        /\ lastOp' = "batch_failed"
                   ELSE IF Pending(v) = {}
                        THEN /\ modal' = processFilesThen(modal, v).modal
                             /\ alerts' = processFilesThen(modal, v).alerts
                             /\ uploads' = uploads (-) SetToBag({u})
                             /\ reply' = UploadReply(u, "fulfilled")
                             /\ lastOp' = "batch_done"
                        ELSE /\ uploads' = (uploads (-) SetToBag({u})) (+) SetToBag({v})
                             /\ alerts' = <<>>
                             /\ reply' = NoReply
                             /\ lastOp' = "file_done"
                             /\ UNCHANGED modal
    /\ lastId' = Null
    /\ NoCommit
    /\ UNCHANGED <<modalRev, summaryVars, gatewayVars, searchQuery, rev, pc, queued, isReflectingId, requests,
                   crashed, uuidCount, saveArg, isModalOpen, editingEntry>>

InitUpload ==
    /\ rev = 2
    /\ modalRev = 1
    /\ yearSummary = Null
    /\ isGeneratingSummary = FALSE
    /\ pc = "ready"
    /\ entries = <<>>
    /\ slot = AbsentSlot
    /\ queued = <<>>
    /\ storageError = Null
    /\ isReflectingId = Null
    /\ requests = EmptyBag
    /\ crashed = FALSE
    /\ uuidCount = 0
    /\ failures = MaxFailures
    /\ lastWrite = "none"
    /\ lastOp = "none"
    /\ lastId = Null
    /\ saveArg = NoArg
    /\ isModalOpen = FALSE
    /\ editingEntry = <<>>
    /\ modal = ClosedModal
    /\ searchQuery = ""
    /\ env = HealthyEnv
    /\ gatewayModule = "loaded"
    /\ reply = NoReply
    /\ uploads = EmptyBag
    /\ alerts = <<>>

NextUpload ==
    \/ handleAddEntry
    \/ CloseModal
    \/ processFiles
    \/ OptimizeSettles

SpecUpload == InitUpload /\ [][NextUpload]_vars

ImageTypes == {"image/png", "image/jpeg"}
ImagePlaces(files) == {i \in 1..Len(files) : files[i].type \in ImageTypes}
BatchEnded(state) == reply'.op = "processFiles" /\ reply'.state = state

\* C19: when a batch ends well, the form's images are the images it had, followed
\* by one payload for each file of the submitted list that is an image, in the
\* order of the list, and no alert is shown for the files left out.
C19_BatchAppendedInOrder ==
    [][BatchEnded("fulfilled") =>
          LET files == reply'.submitted
              old == Len(modal.images)
          IN  /\ Len(modal'.images) = old + Cardinality(ImagePlaces(files))
              /\ SubSeq(modal'.images, 1, old) = modal.images
              /\ \A i \in ImagePlaces(files) :
                    modal'.images[old + Cardinality({j \in ImagePlaces(files) : j <= i})].of
                       = files[i].name
              /\ alerts' = <<>>]_vars

C19_Witness ==
    /\ lastOp = "batch_done"
    /\ reply.op = "processFiles"
    /\ Len(reply.submitted) = 3
    /\ reply.submitted[2].type = "text/plain"
    /\ Len(modal.images) = 3
    /\ <<modal.images[1].of, modal.images[2].of, modal.images[3].of>> = <<"b.jpg", "a.png", "b.jpg">>

\* C20: a batch with a file that fails to process ends in the failure; the step
\* that ends it leaves the form's images as they were, shows exactly one alert
\* and clears isProcessing.
C20_FailedBatchAborts ==
    [][/\ (reply'.op = "processFiles"
            /\ \E i \in ImagePlaces(reply'.submitted) : ~reply'.submitted[i].decodes) =>
              reply'.state = "rejected"
       /\ BatchEnded("rejected") =>
              /\ modal'.images = modal.images
              /\ Len(alerts') = 1
              /\ ~modal'.isProcessing]_vars

C20_Witness ==
    /\ lastOp = "batch_failed"
    /\ reply.op = "processFiles"
    /\ reply.state = "rejected"
    /\ Len(reply.submitted) = 2
    /\ reply.submitted[1].name = "a.png"
    /\ reply.submitted[2].name = "c.png"
    /\ Len(modal.images) = 1
    /\ modal.images[1].of = "b.jpg"
    /\ Len(alerts) = 1

\* --------------------------------------------------- the resizing of a photo
\* One photo at a time, of any of these widths and heights, in either revision.
Sides == {1, 2, 999, 1000, 1001, 1062, 1200, 1201, 2400, 3000}
Photos == {File("p.png", "image/png", TRUE, w, h) : w, h \in Sides}
PhotoLists == {<<f>> : f \in Photos}

processPhoto == StartBatch(PhotoLists, MaxPhotos)

InitScale ==
    /\ rev = 2
    /\ modalRev \in {1, 2}
    /\ yearSummary = Null
    /\ isGeneratingSummary = FALSE
    /\ pc = "ready"
    /\ entries = <<>>
    /\ slot = AbsentSlot
    /\ queued = <<>>
    /\ storageError = Null
    /\ isReflectingId = Null
    /\ requests = EmptyBag
    /\ crashed = FALSE
    /\ uuidCount = 0
    /\ failures = MaxFailures
    /\ lastWrite = "none"
    /\ lastOp = "none"
    /\ lastId = Null
    /\ saveArg = NoArg
    /\ isModalOpen = FALSE
    /\ editingEntry = <<>>
    /\ modal = ClosedModal
    /\ searchQuery = ""
    /\ env = HealthyEnv
    /\ gatewayModule = "loaded"
    /\ reply = NoReply
    /\ uploads = EmptyBag
    /\ alerts = <<>>

NextScale ==
    \/ handleAddEntry
    \/ CloseModal
    \/ processPhoto
    \/ OptimizeSettles

SpecScale == InitScale /\ [][NextScale]_vars

\* The step in which the one photo of a batch has been resized and appended.
PhotoResized ==
    /\ BatchEnded("fulfilled")
    /\ Len(reply'.submitted) = 1
    /\ reply'.submitted[1].decodes
Photo == reply'.submitted[1]
Canvas == modal'.images[Len(modal'.images)]

\* C21 as stated: the scaled width and height are at most the cap, are in the
\* proportion of the input width and height, and are the input width and height
\* when neither of these exceeds the cap.
C21_ScaledInProportion ==
    [][PhotoResized =>
          /\ Canvas.width <= Cap(modalRev)
          /\ Canvas.height <= Cap(modalRev)
          /\ Canvas.width * Photo.height = Canvas.height * Photo.width
          /\ (Photo.width <= Cap(modalRev) /\ Photo.height <= Cap(modalRev)) =>
                (Canvas.width = Photo.width /\ Canvas.height = Photo.height)]_vars

\* scaled is side * cap / long cut down to a whole number of pixels: not above the
\* exact value and at most one pixel below it.
CutDown(scaled, side, cap, long) ==
    /\ scaled * long <= side * cap
    /\ side * cap <= (scaled + 1) * long

\* C21 as amended: the scaled width and height are at most the cap and are the
\* input width and height when neither of these exceeds the cap; otherwise the
\* longer side (the height when they are equal) becomes the cap and the other
\* side its proportional value cut down to whole pixels, so that the proportion
\* is kept to within one pixel.
C21_ScaledWithinOnePixel ==
    [][PhotoResized =>
          /\ Canvas.width <= Cap(modalRev)
          /\ Canvas.height <= Cap(modalRev)
          /\ IF Photo.width <= Cap(modalRev) /\ Photo.height <= Cap(modalRev)
             THEN Canvas.width = Photo.width /\ Canvas.height = Photo.height
             ELSE IF Photo.width > Photo.height
                  THEN /\ Canvas.width = Cap(modalRev)
                       /\ CutDown(Canvas.height, Photo.height, Cap(modalRev), Photo.width)
                  ELSE /\ Canvas.height = Cap(modalRev)
                       /\ CutDown(Canvas.width, Photo.width, Cap(modalRev), Photo.height)]_vars

C21_Witness ==
    /\ lastOp = "batch_done"
    /\ reply.op = "processFiles"
    /\ modalRev = 2
    /\ reply.submitted = <<File("p.png", "image/png", TRUE, 1201, 1200)>>
    /\ Len(modal.images) = 1
    /\ modal.images[1].width = 1200
    /\ modal.images[1].height = 1199

\* ----------------------------------------------------------- entry identity
IdSeq(ents) == [i \in 1..Len(ents) |-> ents[i].id]
\* The ids crypto.randomUUID() has handed out, in this session or an earlier one.
Issued == {IdOf(n) : n \in 1..uuidCount}

\* C22: no two entries of the collection have the same id; an edit or an
\* enrichment leaves every entry's id where it was; a new entry gets an id that
\* was never handed out before, so never the id of a deleted entry.
C22_IdsUniqueStableFresh ==
    /\ [](\A i, j \in 1..Len(entries) : i # j => entries[i].id # entries[j].id)
    /\ [](EntryIds(entries) \subseteq Issued)
    /\ [][lastOp' \in {"edit", "enrich", "enrich_rejected"} => IdSeq(entries') = IdSeq(entries)]_vars
    /\ [][uuidCount' >= uuidCount]_vars
    /\ [][lastOp' = "create" => (entries'[1].id \notin Issued /\ entries'[1].id \in Issued')]_vars

C22_Witness ==
    /\ lastOp = "create"
    /\ uuidCount = 2
    /\ IdSeq(entries) = <<IdOf(2)>>
    /\ Get(entries[1], "aiReflection") = "r"

\* ------------------------------------------------------- the modal's save
\* The form with text of every kind typed into it, photos dropped on it one file
\* at a time and reflections asked for, saved from an empty collection on.  All
\* ids but one were drawn in earlier sessions, so one entry is created and then
\* edited.
TypedContents == {"", " \n\t", "a"}
TypeContent == SetContentFrom(TypedContents)

\* A photo, a file that does not decode, a text file.
OneFileLists == {<<f>> : f \in {x \in Files : x.name # "b.jpg"}}
\* With one file to a batch MaxUploads bounds the images of the form as well.
dropFile == StartBatch(OneFileLists, MaxUploads)

InitSave ==
    /\ rev = 2
    /\ modalRev \in {1, 2}
    /\ yearSummary = Null
    /\ isGeneratingSummary = FALSE
    /\ pc = "ready"
    /\ entries = <<>>
    /\ slot = JSONstringify(entries)
    /\ queued = <<>>
    /\ storageError = Null
    /\ isReflectingId = Null
    /\ requests = EmptyBag
    /\ crashed = FALSE
    /\ uuidCount = MaxIds - 1
    /\ failures = MaxFailures
    /\ lastWrite = "none"
    /\ lastOp = "none"
    /\ lastId = Null
    /\ saveArg = NoArg
    /\ isModalOpen = FALSE
    /\ editingEntry = <<>>
    /\ modal = ClosedModal
    /\ searchQuery = ""
    /\ env = HealthyEnv
    /\ gatewayModule = "loaded"
    /\ reply = NoReply
    /\ uploads = EmptyBag
    /\ alerts = <<>>

NextSave ==
    \/ handleAddEntry
    \/ handleEditEntry
    \/ CloseModal
    \/ TypeContent
    \/ ModalReflect
    \/ ModalSettle
    \/ dropFile
    \/ OptimizeSettles
    \/ handleSave

SpecSave == InitSave /\ [][NextSave]_vars

\* A string is blank when it has nothing but white space in it.
Blank(str) == \A k \in 1..Len(str) : SubSeq(str, k, k) \in {" ", "\t", "\n"}
SaveClicked == lastOp' \in {"save_blocked", "create", "edit"}

\* C23: every entry of the collection and of the slot has content that is not
\* blank, and a click on save with blank content in the form changes neither.
C23_SavedContentNotBlank ==
    /\ [](\A i \in 1..Len(entries) : ~Blank(entries[i].content))
    /\ [](\A i \in 1..Len(slot.items) : ~Blank(slot.items[i].content))
    /\ [][(SaveClicked /\ Blank(modal.content)) => (entries' = entries /\ slot' = slot)]_vars

C23_Witness ==
    /\ lastOp = "save_blocked"
    /\ modal.content = " \n\t"
    /\ ~modal.isProcessing
    /\ ~modal.isReflecting
    /\ editingEntry # <<>>
    /\ Len(entries) = 1
    /\ entries[1].content = "a"

\* An object with an aiImage has an aiReflection.
ImageHasReflection(o) == Truthy(Get(o, "aiImage")) => Truthy(Get(o, "aiReflection"))

\* C24: every entry that has an aiImage has an aiReflection, and so have the form
\* and the entry the form was opened on; the clear button of the form takes both
\* away in one step.
C24_ImageImpliesReflection ==
    /\ [](\A i \in 1..Len(entries) : ImageHasReflection(entries[i]))
    /\ [](\A i \in 1..Len(slot.items) : ImageHasReflection(slot.items[i]))
    /\ [](\A i \in 1..Len(editingEntry) : ImageHasReflection(editingEntry[i]))
    /\ [](ImageHasReflection(modal))
    /\ [][lastOp' = "clear_ai" =>
             (modal'.aiReflection = Undefined /\ modal'.aiImage = Undefined)]_vars

C24_Witness ==
    /\ lastOp = "enrich"
    /\ isModalOpen
    /\ modal.aiImage = Undefined
    /\ Truthy(modal.aiReflection)
    /\ \E i \in 1..Len(entries) :
         /\ entries[i].id = lastId
         /\ Get(entries[i], "aiImage") = "img"
         /\ Truthy(Get(entries[i], "aiReflection"))

\* C25: the aiReflection of an entry changes only in the write-back of a timeline
\* pair for that entry, or in a save of the form in which the user or a modal
\* pair has changed the reflection the form was opened with; a save of a form
\* whose reflection is still the one it was opened with leaves the entry's
\* aiReflection alone.
C25_ReflectionKeptBySave ==
    [][\A i \in 1..Len(entries) : \A j \in 1..Len(entries') :
          (/\ entries[i].id = entries'[j].id
           /\ Get(entries'[j], "aiReflection") # Get(entries[i], "aiReflection")) =>
              \/ lastOp' = "enrich" /\ lastId' = entries[i].id
              \/ /\ lastOp' = "edit"
                 /\ lastId' = entries[i].id
                 /\ modal.aiReflection # Get(editingEntry[1], "aiReflection")]_vars

\* C26: a call of reflect or summarize sends at most one request; a call of
\* illustrate sends at most two, the second only when the first did not fail; no
\* call sends more requests than it had round trips, so none is sent again.
C26_AtMostOneAttempt ==
    /\ reply.op \in {"reflect", "summarize"} => reply.result.sent <= 1
    /\ reply.op = "illustrate" =>
          /\ reply.result.sent <= 2
          /\ reply.result.sent = 2 => ThrownBy(reply.run[1]) = "none"
          /\ ThrownBy(reply.run[1]) # "none" => reply.result.sent <= 1
    /\ reply.op \in CallOps => reply.result.sent <= Len(reply.run)

C26_Witness ==
    /\ reply.op = "illustrate"
    /\ env.apiKey = "key"
    /\ env.gw = 2
    /\ reply.run = <<"error">>
    /\ reply.result.sent = 1
    /\ reply.result.state = "fulfilled"

\* ------------------------------------------- edits beside a timeline pair
\* Two stored entries that are edited and deleted while timeline pairs are in
\* flight; every id was drawn in an earlier session, so no entry is created.
EditedContents == {"a", "b"}
EditContent == SetContentFrom(EditedContents)
StoredEntry2 ==
    [id |-> IdOf(2), content |-> "a", date |-> "2024-02-01T00:00:00.000Z",
     images |-> <<"photo">>, aiReflection |-> Undefined, aiImage |-> Undefined]

InitFrame ==
    /\ rev = 2
    /\ modalRev = 1
    /\ yearSummary = Null
    /\ isGeneratingSummary = FALSE
    /\ pc = "ready"
    /\ entries = <<StoredEntry2, StoredEntry1>>
    /\ slot = JSONstringify(entries)
    /\ queued = <<>>
    /\ storageError = Null
    /\ isReflectingId = Null
    /\ requests = EmptyBag
    /\ crashed = FALSE
    /\ uuidCount = MaxIds
    /\ failures = MaxFailures
    /\ lastWrite = "none"
    /\ lastOp = "none"
    /\ lastId = Null
    /\ saveArg = NoArg
    /\ isModalOpen = FALSE
    /\ editingEntry = <<>>
    /\ modal = ClosedModal
    /\ searchQuery = ""
    /\ env = HealthyEnv
    /\ gatewayModule = "loaded"
    /\ reply = NoReply
    /\ uploads = EmptyBag
    /\ alerts = <<>>

NextFrame ==
    \/ ReflectClick
    \/ ReflectSettle
    \/ DeleteEntry
    \/ handleEditEntry
    \/ CloseModal
    \/ EditContent
    \/ SetDate
    \/ RemoveImage
    \/ handleSave

SpecFrame == InitFrame /\ [][NextFrame]_vars

\* C27: the step that settles a timeline pair for id X leaves the collection as
\* it is but for the aiReflection and aiImage of the entry with id X: that
\* entry's id, content, date and images and every other entry are as before,
\* and with no entry of id X nothing changes.
C27_WriteBackTouchesOnlyAi ==
    [][lastOp' \in {"enrich", "enrich_rejected"} =>
          /\ Len(entries') = Len(entries)
          /\ \A i \in 1..Len(entries) :
               IF entries[i].id = lastId'
               THEN /\ entries'[i].id = entries[i].id
                    /\ entries'[i].content = entries[i].content
                    /\ entries'[i].date = entries[i].date
                    /\ entries'[i].images = entries[i].images
               ELSE entries'[i] = entries[i]
          /\ lastId' \notin EntryIds(entries) => entries' = entries]_vars

\* A pair started on "a" of 1 February with a photo has settled on an entry that
\* was rewritten, redated and stripped of its photo meanwhile.
C27_Witness ==
    /\ lastOp = "enrich"
    /\ lastId = IdOf(2)
    /\ reply.request.content = "a"
    /\ reply.request.date = "2024-02-01T00:00:00.000Z"
    /\ Len(entries) = 2
    /\ entries[1].content = "b"
    /\ entries[1].date = "2024-01-01T00:00:00.000Z"
    /\ entries[1].images = <<>>
    /\ Get(entries[1], "aiReflection") = "r"
    /\ Get(entries[2], "aiReflection") = Undefined

\* C28: while a batch started in the form is still being processed, isProcessing
\* is true and a click on save saves nothing.
C28_ProcessingBlocksSave ==
    /\ [](uploads # EmptyBag => modal.isProcessing)
    /\ [][(uploads # EmptyBag /\ SaveClicked) => lastOp' = "save_blocked"]_vars

\* C30: a click on save hands the form to onSave and closes the modal when the
\* content is not blank and neither a batch nor a modal pair is in flight;
\* otherwise the collection and the slot are unchanged and the modal stays open.
C30_SaveOnlyWhenIdle ==
    [][SaveClicked =>
          IF ~Blank(modal.content) /\ uploads = EmptyBag /\ ModalRequests = EmptyBag
          THEN lastOp' \in {"create", "edit"} /\ ~isModalOpen'
          ELSE /\ lastOp' = "save_blocked"
               /\ entries' = entries
               /\ slot' = slot
               /\ isModalOpen']_vars

\* ------------------------------------------------------------- year summary
\* The Summarize button is disabled while isGeneratingSummary and on an empty
\* collection; the handler itself returns on an empty collection.
SummaryBlocked == isGeneratingSummary \/ Len(entries) = 0
SummaryRequest(ents) ==
    [src |-> "summary", id |-> Null,
     content |-> [i \in 1..Len(ents) |-> ents[i].date \o ": " \o ents[i].content],
     date |-> Null]
SummaryRequests == RequestsFrom("summary")

handleGenerateYearSummary ==
    /\ pc = "ready"
    /\ ~isModalOpen
    /\ IF SummaryBlocked
       THEN /\ lastOp' = "summary_blocked"
            /\ UNCHANGED <<isGeneratingSummary, requests>>
       ELSE /\ BagCardinality(requests) < MaxInFlight
            /\ isGeneratingSummary' = TRUE
            /\ requests' = requests (+) SetToBag({SummaryRequest(entries)})
            /\ lastOp' = "summarize"
    /\ lastId' = Null
    /\ NoCommit
    /\ alerts' = <<>>
    /\ reply' = NoReply
    /\ UNCHANGED <<modalRev, yearSummary, gatewayVars, searchQuery, uploads, rev, pc, queued,
                   isReflectingId, crashed, uuidCount, saveArg, modalVars>>

\* The continuation of handleGenerateYearSummary: try, catch and finally.
SummarySettle ==
    /\ pc = "ready"
    /\ \E q \in DOMAIN SummaryRequests :
         /\ \E o \in ServiceOutcomes(env, "text") :
              LET r == generateYearSummary(env, o) IN
              /\ yearSummary' = IF r.state = "fulfilled" THEN r.value ELSE yearSummary
              /\ lastOp' = IF r.state = "fulfilled" THEN "summary" ELSE "summary_rejected"
              /\ reply' = [op |-> "summarize", run |-> <<o>>, result |-> r]
         /\ requests' = requests (-) SetToBag({q})
    /\ isGeneratingSummary' = FALSE
    /\ lastId' = Null
    /\ NoCommit
    /\ alerts' = <<>>
    /\ UNCHANGED <<modalRev, gatewayVars, searchQuery, uploads, rev, pc, queued, isReflectingId,
                   crashed, uuidCount, saveArg, modalVars>>

\* ------------------------------------------------- the four in-flight flags
\* One stored entry, the gateway of part_002 and a service that answers or
\* rejects with null, so that pairs and summaries are fulfilled and rejected.
LiveEnv ==
    [gw |-> 3, process |-> TRUE, apiKey |-> "key", strictSdk |-> TRUE,
     service |-> [text |-> {"text", "throwNull"}, image |-> {"image", "throwNull"}]]

InitLive ==
    /\ rev = 2
    /\ modalRev = 1
    /\ yearSummary = Null
    /\ isGeneratingSummary = FALSE
    /\ pc = "ready"
    /\ entries = <<StoredEntry1>>
    /\ slot = JSONstringify(entries)
    /\ queued = <<>>
    /\ storageError = Null
    /\ isReflectingId = Null
    /\ requests = EmptyBag
    /\ crashed = FALSE
    /\ uuidCount = MaxIds
    /\ failures = MaxFailures
    /\ lastWrite = "none"
    /\ lastOp = "none"
    /\ lastId = Null
    /\ saveArg = NoArg
    /\ isModalOpen = FALSE
    /\ editingEntry = <<>>
    /\ modal = ClosedModal
    /\ searchQuery = ""
    /\ env = LiveEnv
    /\ gatewayModule = "loaded"
    /\ reply = NoReply
    /\ uploads = EmptyBag
    /\ alerts = <<>>

NextLive ==
    \/ ReflectClick
    \/ ReflectSettle
    \/ handleGenerateYearSummary
    \/ SummarySettle
    \/ handleEditEntry
    \/ CloseModal
    \/ ModalReflect
    \/ ModalSettle
    \/ dropFile
    \/ OptimizeSettles

\* The asynchronous work terminates: a pair, a summary request or a file that is
\* outstanding is settled in the end.
SpecLive ==
    /\ InitLive
    /\ [][NextLive]_vars
    /\ WF_vars(ReflectSettle)
    /\ WF_vars(SummarySettle)
    /\ WF_vars(ModalSettle)
    /\ WF_vars(OptimizeSettles)

\* C29: each of the four flags, whenever it is set, is cleared again later; that
\* is, from every point on there comes a state in which the flag is clear.
C29_FlagsCleared ==
    /\ []<>(~Truthy(isReflectingId))
    /\ []<>(~modal.isReflecting)
    /\ []<>(~isGeneratingSummary)
    /\ []<>(~modal.isProcessing)

C29_Witness ==
    /\ lastOp = "batch_failed"
    /\ ~modal.isProcessing
    /\ uploads = EmptyBag
    /\ ~modal.isReflecting
    /\ ~isGeneratingSummary
    /\ ~Truthy(isReflectingId)
    /\ yearSummary = Null
    /\ requests = EmptyBag
    /\ Truthy(modal.aiReflection)

====
